---- MODULE Spec2Model ----
(***************************************************************************)
(* A model of the decision engine of the forex analyzer: the risk-managed  *)
(* trade planner (src/src/risk/risk_manager.py), the cross-timeframe       *)
(* consensus (src/src/analysis/multi_timeframe.py), the ensemble voter     *)
(* (src/src/ml/prediction_model.py) and the trend-momentum engine          *)
(* (src/src/analysis/trend_momentum.py).                                   *)
(*                                                                         *)
(* Numbers.  Python floats are modelled as exact rationals in lowest terms *)
(* [n |-> numerator, d |-> denominator > 0]; round(x, k) is modelled as    *)
(* rounding to the nearest multiple of 10^-k, ties to even.  The inputs    *)
(* enumerated below are chosen so that no rounding tie occurs.             *)
(*                                                                         *)
(* Calls.  `request` holds the arguments of the calls of one behaviour,    *)
(* drawn by the initial condition; every operation leaves its name in `op` *)
(* and in `result` either                                                  *)
(*   [outcome |-> "returned", value |-> v]   the value the call returned   *)
(*   [outcome |-> "raised",   error |-> e]   the exception that escaped it *)
(* A Python dict is a TLA+ function whose DOMAIN is the dict's key set.    *)
(***************************************************************************)
EXTENDS Integers, Sequences, FiniteSets, TLC

VARIABLES
    trades,            \* RiskManager.trades, the ledger
    current_drawdown,  \* RiskManager.current_drawdown
    request,           \* the arguments the caller holds for its calls
    op,                \* the last operation called
    result             \* what that operation returned or raised

vars == <<trades, current_drawdown, request, op, result>>

-----------------------------------------------------------------------------
(* Exact rational arithmetic.                                              *)

Abs(x) == IF x < 0 THEN -x ELSE x

RECURSIVE GCD(_, _)
GCD(a, b) == IF b = 0 THEN a ELSE GCD(b, a % b)

\* n/d in lowest terms with a positive denominator (d # 0).
Q(n, d) ==
    LET s == IF d < 0 THEN -1 ELSE 1
        g == GCD(Abs(n), Abs(d))
    IN [n |-> (s * n) \div g, d |-> (s * d) \div g]

\* float('nan'): the one value with denominator 0
NaN == [n |-> 0, d |-> 0]

IsNaN(a) == a.d = 0

QInt(k) == [n |-> k, d |-> 1]

QZero == QInt(0)

QNeg(a) == [n |-> -a.n, d |-> a.d]

QAdd(a, b) ==
    IF IsNaN(a) \/ IsNaN(b) THEN NaN
    ELSE LET g == GCD(a.d, b.d)
         IN Q(a.n * (b.d \div g) + b.n * (a.d \div g), (a.d \div g) * b.d)

QSub(a, b) == QAdd(a, QNeg(b))

QMul(a, b) ==
    IF IsNaN(a) \/ IsNaN(b) THEN NaN
    ELSE IF a.n = 0 \/ b.n = 0 THEN QZero
    ELSE LET g1 == GCD(Abs(a.n), b.d)
             g2 == GCD(Abs(b.n), a.d)
         IN [n |-> (a.n \div g1) * (b.n \div g2), d |-> (a.d \div g2) * (b.d \div g1)]

\* a / b for b # 0
QDiv(a, b) ==
    IF IsNaN(b) THEN NaN
    ELSE QMul(a, IF b.n < 0 THEN [n |-> -b.d, d |-> -b.n] ELSE [n |-> b.d, d |-> b.n])

QAbs(a) == [n |-> Abs(a.n), d |-> a.d]

\* Comparisons; every comparison with NaN is false, as in Python.
QLt(a, b) == ~IsNaN(a) /\ ~IsNaN(b) /\ QSub(a, b).n < 0

QLe(a, b) == ~IsNaN(a) /\ ~IsNaN(b) /\ QSub(a, b).n <= 0

QGt(a, b) == QLt(b, a)

QGe(a, b) == QLe(b, a)

QEq(a, b) == ~IsNaN(a) /\ ~IsNaN(b) /\ a = b

\* Python's min(a, b)
QMin(a, b) == IF QLt(b, a) THEN b ELSE a

\* Python's max(a, b)
QMax(a, b) == IF QGt(b, a) THEN b ELSE a

\* The integer nearest to n/d (d > 0), a tie going to the even neighbour.
RoundHalfEven(n, d) ==
    LET q == n \div d
        r == n % d
    IN IF 2 * r < d THEN q
       ELSE IF 2 * r > d THEN q + 1
       ELSE IF q % 2 = 0 THEN q ELSE q + 1

RECURSIVE Pow10(_)
Pow10(k) == IF k = 0 THEN 1 ELSE 10 * Pow10(k - 1)

\* Python's round(x, digits)
Round(x, digits) ==
    IF IsNaN(x) THEN NaN
    ELSE LET p == Pow10(digits)
             g == GCD(p, x.d)
         IN Q(RoundHalfEven(x.n * (p \div g), x.d \div g), p)

-----------------------------------------------------------------------------
(* Configuration: the defaults of get_default_config, which are also the   *)
(* defaults the code falls back to when a key is missing.                  *)

\* confluence.min_confidence = 0.6, in hundredths
MinConfidencePct == 60

\* risk_management.max_drawdown = 0.15, in hundredths
MaxDrawdownPct == 15

\* risk_management.risk_per_trade = 0.02, in hundredths
RiskPerTradePct == 2

\* risk_management.atr_multiplier = 2.0
AtrMultiplier == 2

\* risk_management.min_risk_reward = 1.5, in tenths
MinRiskRewardTenths == 15

\* 1 standard lot = 100,000 units
StandardLot == 100000

\* the number of decimals every price level is rounded to
PriceDigits == 5

Pct(k) == Q(k, 100)

min_confidence == Pct(MinConfidencePct)

max_drawdown == Pct(MaxDrawdownPct)

Signals == {"BUY", "SELL", "HOLD"}

AllTimeframes == <<"15m", "1h", "4h", "1d">>

SeqToSet(s) == {s[i] : i \in 1..Len(s)}

-----------------------------------------------------------------------------
(* RiskManager                                                             *)

Returned(v) == [outcome |-> "returned", value |-> v]

Raised(e) == [outcome |-> "raised", error |-> e]

\* position sizing that counts a lot as 10,000 units
PositionSizeInMiniLots(account_balance, entry_price, stop_loss_price, risk_per_trade) ==
    LET risk_amount == QMul(account_balance, risk_per_trade)
        price_diff == QAbs(QSub(entry_price, stop_loss_price))
    IN IF QEq(price_diff, QZero)
       THEN [position_size |-> QZero,
             risk_amount |-> QZero,
             error |-> "Invalid stop loss"]
       ELSE LET position_size == QDiv(risk_amount, price_diff)
                lots == QDiv(position_size, QInt(10000))
            IN [position_size_units |-> position_size,
                position_size_lots |-> lots,
                risk_amount |-> risk_amount,
                risk_percentage |-> QMul(risk_per_trade, QInt(100)),
                stop_loss_distance |-> price_diff,
                stop_loss_pct |-> QMul(QDiv(price_diff, entry_price), QInt(100))]

\* RiskManager.calculate_position_size with risk_per_trade a rational
calculate_position_size(account_balance, entry_price, stop_loss_price, risk_per_trade) ==
    LET risk_amount == QMul(account_balance, risk_per_trade)
        price_diff == QAbs(QSub(entry_price, stop_loss_price))
    IN IF QEq(price_diff, QZero)
       THEN [position_size |-> QZero,
             risk_amount |-> QZero,
             error |-> "Invalid stop loss"]
       ELSE LET position_size == QDiv(risk_amount, price_diff)
                lots == QDiv(position_size, QInt(StandardLot))
            IN [position_size_units |-> position_size,
                position_size_lots |-> lots,
                risk_amount |-> risk_amount,
                risk_percentage |-> QMul(risk_per_trade, QInt(100)),
                stop_loss_distance |-> price_diff,
                stop_loss_pct |-> QMul(QDiv(price_diff, entry_price), QInt(100))]

\* RiskManager.validate_trade; the reasons are named by their leading words
validate_trade(signal, confidence, drawdown) ==
    IF signal = "HOLD"
    THEN [approved |-> FALSE, reasons |-> <<"Signal is HOLD">>]
    ELSE LET lowConf == QLt(confidence, min_confidence)
             overDD == QGt(drawdown, max_drawdown)
             r1 == IF lowConf THEN <<"Confidence below minimum">> ELSE <<>>
             r2 == IF overDD THEN <<"Drawdown exceeds limit">> ELSE <<>>
             approved == ~lowConf /\ ~overDD
             r3 == IF approved THEN <<"All risk checks passed">> ELSE <<>>
         IN [approved |-> approved, reasons |-> r1 \o r2 \o r3]

\* RiskManager.calculate_stop_loss; row is the last row of df, DOMAIN row its columns
calculate_stop_loss(row, entry_price, signal) ==
    IF "ATR" \notin DOMAIN row
    THEN IF signal = "BUY" THEN QMul(entry_price, Q(98, 100))
                           ELSE QMul(entry_price, Q(102, 100))
    ELSE LET stop_distance == QMul(row["ATR"], QInt(AtrMultiplier))
         IN IF signal = "BUY" THEN QSub(entry_price, stop_distance)
                              ELSE QAdd(entry_price, stop_distance)

\* RiskManager.calculate_take_profit
calculate_take_profit(entry_price, stop_loss_price, signal) ==
    LET stop_distance == QAbs(QSub(entry_price, stop_loss_price))
        profit_distance == QMul(stop_distance, Q(MinRiskRewardTenths, 10))
    IN IF signal = "BUY" THEN QAdd(entry_price, profit_distance)
                         ELSE QSub(entry_price, profit_distance)

\* entry_price + sign * k * atr, rounded as every price level is
Level(entry_price, sign, k, atr) ==
    Round(QAdd(entry_price, QMul(QInt(sign * k), atr)), PriceDigits)

\* round(((k * atr) / entry_price) * 100, 2)
LevelPct(entry_price, k, atr) ==
    Round(QMul(QDiv(QMul(QInt(k), atr), entry_price), QInt(100)), 2)

\* the stop ladder with the standard stop only one ATR away from the entry
StopLossesStandardAtOneAtr(entry_price, signal, atr) ==
    LET sg == IF signal = "BUY" THEN -1 ELSE 1
    IN [tight_1atr |-> [price |-> Level(entry_price, sg, 1, atr),
                        risk_pct |-> LevelPct(entry_price, 1, atr), atr_multiple |-> 1],
        standard_2atr |-> [price |-> Level(entry_price, sg, 1, atr),
                           risk_pct |-> LevelPct(entry_price, 1, atr), atr_multiple |-> 2,
                           recommended |-> TRUE],
        wide_3atr |-> [price |-> Level(entry_price, sg, 3, atr),
                       risk_pct |-> LevelPct(entry_price, 3, atr), atr_multiple |-> 3],
        percentage_2pct |-> [price |-> Round(QMul(entry_price, Q(100 + sg * 2, 100)), PriceDigits),
                             risk_pct |-> QInt(2), type |-> "percentage"],
        percentage_3pct |-> [price |-> Round(QMul(entry_price, Q(100 + sg * 3, 100)), PriceDigits),
                             risk_pct |-> QInt(3), type |-> "percentage"]]

\* RiskManager._calculate_multiple_stop_losses (the description texts are left out)
_calculate_multiple_stop_losses(entry_price, signal, atr) ==
    LET sg == IF signal = "BUY" THEN -1 ELSE 1
    IN [tight_1atr |-> [price |-> Level(entry_price, sg, 1, atr),
                        risk_pct |-> LevelPct(entry_price, 1, atr), atr_multiple |-> 1],
        standard_2atr |-> [price |-> Level(entry_price, sg, 2, atr),
                           risk_pct |-> LevelPct(entry_price, 2, atr), atr_multiple |-> 2,
                           recommended |-> TRUE],
        wide_3atr |-> [price |-> Level(entry_price, sg, 3, atr),
                       risk_pct |-> LevelPct(entry_price, 3, atr), atr_multiple |-> 3],
        percentage_2pct |-> [price |-> Round(QMul(entry_price, Q(100 + sg * 2, 100)), PriceDigits),
                             risk_pct |-> QInt(2), type |-> "percentage"],
        percentage_3pct |-> [price |-> Round(QMul(entry_price, Q(100 + sg * 3, 100)), PriceDigits),
                             risk_pct |-> QInt(3), type |-> "percentage"]]

\* one target of the take-profit ladder
Target(entry_price, sign, k, atr, close_pct) ==
    [price |-> Level(entry_price, sign, k, atr),
     gain_pct |-> LevelPct(entry_price, k, atr),
     atr_multiple |-> k,
     position_close_pct |-> close_pct]

\* the same ladder with the last target closing "the rest" as 30 instead of 25
TakeProfitsUnevenClose(entry_price, signal, atr) ==
    LET sg == IF signal = "BUY" THEN 1 ELSE -1
    IN [tp1_quick |-> Target(entry_price, sg, 1, atr, 25),
        tp2_conservative |-> Target(entry_price, sg, 2, atr, 25) @@ [recommended |-> TRUE],
        tp3_moderate |-> Target(entry_price, sg, 3, atr, 25),
        tp4_aggressive |-> Target(entry_price, sg, 5, atr, 30)]

\* RiskManager._calculate_multiple_take_profits (the description texts are left out)
_calculate_multiple_take_profits(entry_price, signal, atr) ==
    LET sg == IF signal = "BUY" THEN 1 ELSE -1
    IN [tp1_quick |-> Target(entry_price, sg, 1, atr, 25),
        tp2_conservative |-> Target(entry_price, sg, 2, atr, 25) @@ [recommended |-> TRUE],
        tp3_moderate |-> Target(entry_price, sg, 3, atr, 25),
        tp4_aggressive |-> Target(entry_price, sg, 5, atr, 25)]

\* latest.get(col, default) of a pandas row
RowGet(row, col, default) == IF col \in DOMAIN row THEN row[col] ELSE default

\* RiskManager._calculate_multiple_entries; a value read from the row is a
\* float, so the isinstance test of the code passes for it and for the default
_calculate_multiple_entries(entry_price, signal, atr, row) ==
    LET sg == IF signal = "BUY" THEN -1 ELSE 1
        fallback == QAdd(entry_price, QMul(Q(sg * 15, 10), atr))
        band == IF signal = "BUY" THEN RowGet(row, "BB_Lower", fallback)
                                  ELSE RowGet(row, "BB_Upper", fallback)
    IN [entry_1_immediate |-> [price |-> Round(entry_price, PriceDigits),
                               urgency |-> "IMMEDIATE", type |-> "MARKET ORDER"],
        entry_2_pullback |-> [price |-> Round(QAdd(entry_price, QMul(Q(sg * 5, 10), atr)), PriceDigits),
                              urgency |-> "LIMIT ORDER", type |-> "LIMIT ORDER"],
        entry_3_best |-> [price |-> Round(band, PriceDigits),
                          urgency |-> "LIMIT ORDER", type |-> "LIMIT ORDER"]]

\* RiskManager._format_duration: the numbers and unit words of the text
_format_duration(minutes) ==
    IF minutes < 60 THEN <<minutes, "minutes">>
    ELSE IF minutes < 1440
    THEN IF minutes % 60 > 0 THEN <<minutes \div 60, "hours", minutes % 60, "minutes">>
                             ELSE <<minutes \div 60, "hours">>
    ELSE IF (minutes % 1440) \div 60 > 0
         THEN <<minutes \div 1440, "days", (minutes % 1440) \div 60, "hours">>
         ELSE <<minutes \div 1440, "days">>

\* RiskManager._get_trading_strategy (style and holding period of each entry)
_get_trading_strategy(tf) ==
    CASE tf = "15m" -> [style |-> "Scalping", holding_period |-> "15 minutes to 2 hours"]
      [] tf = "1h" -> [style |-> "Intraday Trading", holding_period |-> "1 hour to 8 hours"]
      [] tf = "4h" -> [style |-> "Swing Trading", holding_period |-> "4 hours to 3 days"]
      [] tf = "1d" -> [style |-> "Position Trading", holding_period |-> "1 day to several weeks"]
      [] OTHER -> [style |-> "Unknown", holding_period |-> "Variable"]

\* the timeframe_durations table of create_multi_timeframe_trade_plans
timeframe_durations(tf) ==
    CASE tf = "15m" -> [minutes |-> 15, description |-> "15 minutes", candles_to_target |-> 20]
      [] tf = "1h" -> [minutes |-> 60, description |-> "1 hour", candles_to_target |-> 24]
      [] tf = "4h" -> [minutes |-> 240, description |-> "4 hours", candles_to_target |-> 18]
      [] tf = "1d" -> [minutes |-> 1440, description |-> "1 day", candles_to_target |-> 10]
      [] OTHER -> [minutes |-> 60, description |-> "Unknown", candles_to_target |-> 15]

IndicatorFields ==
    {"RSI", "MACD", "MACD_Signal", "MACD_Hist", "Stoch_K", "Stoch_D", "ATR",
     "MA_20", "MA_50", "MA_200", "BB_Upper", "BB_Middle", "BB_Lower"}

\* RiskManager._extract_indicators
_extract_indicators(row) ==
    [f \in {c \in IndicatorFields \cap DOMAIN row : ~IsNaN(row[c])} |-> Round(row[f], 5)]

\* d[key] of a Python dict: the value, or KeyError
HasKey(d, key) == key \in DOMAIN d

\* the body of the loop of create_multi_timeframe_trade_plans for one
\* timeframe whose frame is present and not empty
TimeframePlan(tf, signal, entry_price, account_balance, row) ==
    LET atr == IF "ATR" \in DOMAIN row THEN row["ATR"] ELSE QMul(entry_price, Q(2, 100))
        stop_losses == _calculate_multiple_stop_losses(entry_price, signal, atr)
        take_profits == _calculate_multiple_take_profits(entry_price, signal, atr)
        entry_points == _calculate_multiple_entries(entry_price, signal, atr, row)
        tf_info == timeframe_durations(tf)
        candles_to_tp == tf_info.candles_to_target
        expected_duration_minutes == candles_to_tp * tf_info.minutes
        standard_sl == stop_losses.standard_2atr.price
        position_info == calculate_position_size(account_balance, entry_price, standard_sl,
                                                 Pct(RiskPerTradePct))
        potential_loss == QAbs(QSub(entry_price, standard_sl))
        risk_reward_ratios ==
            [tp \in {t \in DOMAIN take_profits : QGt(potential_loss, QZero)} |->
                Round(QDiv(QAbs(QSub(take_profits[tp].price, entry_price)), potential_loss), 2)]
    IN IF ~HasKey(position_info, "position_size_lots")
       THEN Raised("KeyError: position_size_lots")
       ELSE Returned(
            [timeframe |-> tf,
             timeframe_description |-> tf_info.description,
             entry_points |-> entry_points,
             stop_losses |-> stop_losses,
             take_profits |-> take_profits,
             position_sizing |-> [position_size_lots |-> position_info.position_size_lots,
                                  position_size_units |-> position_info.position_size_units,
                                  risk_amount |-> position_info.risk_amount,
                                  risk_percentage |-> position_info.risk_percentage],
             risk_reward_ratios |-> risk_reward_ratios,
             expected_execution |-> [duration_minutes |-> expected_duration_minutes,
                                     duration_readable |-> _format_duration(expected_duration_minutes),
                                     candles_to_target |-> candles_to_tp],
             trading_strategy |-> _get_trading_strategy(tf),
             current_indicators |-> _extract_indicators(row)])

\* the timeframes of the list the loop does not skip, in the order of the list
UsableTimeframes(dataframes, timeframes) ==
    SelectSeq(timeframes, LAMBDA tf : tf \in DOMAIN dataframes /\ ~dataframes[tf].empty)

\* RiskManager.create_multi_timeframe_trade_plans; drawdown is self.current_drawdown
create_multi_timeframe_trade_plans(signal, entry_price, confidence, account_balance, dataframes, timeframes, drawdown) ==
    LET validation == validate_trade(signal, confidence, drawdown)
        usable == UsableTimeframes(dataframes, timeframes)
        planOf(tf) == TimeframePlan(tf, signal, entry_price, account_balance, dataframes[tf].row)
        failing == {i \in 1..Len(usable) : planOf(usable[i]).outcome = "raised"}
        first == CHOOSE i \in failing : \A j \in failing : i <= j
    IN IF ~validation.approved
       THEN Returned([approved |-> FALSE, signal |-> signal, reasons |-> validation.reasons])
       ELSE IF failing # {}
       THEN planOf(usable[first])
       ELSE Returned([approved |-> TRUE,
                      signal |-> signal,
                      confidence |-> confidence,
                      entry_price |-> entry_price,
                      timeframe_plans |-> [tf \in SeqToSet(usable) |-> planOf(tf).value]])

\* RiskManager.create_trade_plan for a frame with at least one row
create_trade_plan(signal, entry_price, confidence, account_balance, row, drawdown) ==
    LET validation == validate_trade(signal, confidence, drawdown)
        stop_loss == calculate_stop_loss(row, entry_price, signal)
        take_profit == calculate_take_profit(entry_price, stop_loss, signal)
        position_info == calculate_position_size(account_balance, entry_price, stop_loss,
                                                 Pct(RiskPerTradePct))
    IN IF ~validation.approved
       THEN Returned([approved |-> FALSE, signal |-> signal, reasons |-> validation.reasons])
       ELSE IF ~HasKey(position_info, "position_size_lots")
       THEN Raised("KeyError: position_size_lots")
       ELSE Returned([approved |-> TRUE,
                      signal |-> signal,
                      confidence |-> confidence,
                      entry_price |-> entry_price,
                      stop_loss |-> stop_loss,
                      take_profit |-> take_profit,
                      position_size_lots |-> position_info.position_size_lots,
                      position_size_units |-> position_info.position_size_units,
                      risk_amount |-> position_info.risk_amount,
                      risk_percentage |-> position_info.risk_percentage,
                      potential_profit |-> QMul(QAbs(QSub(take_profit, entry_price)),
                                                position_info.position_size_units),
                      potential_loss |-> position_info.risk_amount,
                      risk_reward_ratio |-> QDiv(QAbs(QSub(take_profit, entry_price)),
                                                 QAbs(QSub(stop_loss, entry_price)))])

-----------------------------------------------------------------------------
(* The inputs the operations are exercised with.                           *)

\* the longest ledger explored
MaxTrades == 2

\* the most frames a dict of frames holds
MaxFrames == 2

\* profit or loss of a recorded trade, in account currency
TradePnls == {-2000, 500}

Balances == {QInt(10000)}

\* 1.10000 (a major pair) and 150.25 (a yen pair)
EntryPrices == {Q(11, 10), Q(15025, 100)}

\* below, at and above min_confidence
Confidences == {Pct(55), Pct(60), Pct(80)}

\* a flat market, a nearly flat one (0.000004) and a usual one (0.00500)
ATRValues == {QZero, Q(4, 1000000), Q(5, 1000)}

\* the last row of a fetched frame before any indicator is attached
RawRow(price) == [Close |-> price]

\* the last row of a frame with the ATR and Bollinger columns attached
IndicatorRow(price, atr) ==
    [Close |-> price, ATR |-> atr,
     BB_Lower |-> QMul(price, Q(99, 100)),
     BB_Middle |-> price,
     BB_Upper |-> QMul(price, Q(101, 100))]

\* the last row of a frame too short for the ATR and Bollinger windows: the
\* columns are there, their latest values are NaN
UndefinedAtrRow(price) ==
    [Close |-> price, ATR |-> NaN, BB_Lower |-> NaN, BB_Middle |-> NaN, BB_Upper |-> NaN]

\* the last row of a frame too short for the Bollinger window
UndefinedBandRow(price, atr) ==
    [Close |-> price, ATR |-> atr, BB_Lower |-> NaN, BB_Middle |-> NaN, BB_Upper |-> NaN]

Rows(price) ==
    {RawRow(price), UndefinedAtrRow(price), UndefinedBandRow(price, Q(5, 1000))}
        \cup {IndicatorRow(price, a) : a \in ATRValues}

EmptyFrame == [empty |-> TRUE, row |-> <<>>]

Frames(price) == {EmptyFrame} \cup {[empty |-> FALSE, row |-> r] : r \in Rows(price)}

\* every dict of at most MaxFrames frames keyed by timeframe
DataframeDicts(price) ==
    UNION {[tfs -> Frames(price)] :
             tfs \in {t \in SUBSET SeqToSet(AllTimeframes) : Cardinality(t) <= MaxFrames}}

\* the default list (timeframes=None) and a shorter request
TimeframeLists == {AllTimeframes, <<"1d", "1h">>}

\* the arguments of a trade-plan request
PlanRequests ==
    UNION {[signal : Signals, confidence : Confidences, account_balance : Balances,
            entry_price : {entry}, dataframes : DataframeDicts(entry),
            timeframes : TimeframeLists] : entry \in EntryPrices}

\* the requests analyze_pair makes when only the daily frame was fetched
DailyRequests ==
    UNION {[signal : Signals, confidence : Confidences, account_balance : Balances,
            entry_price : {entry}, dataframes : [{"1d"} -> Frames(entry)],
            timeframes : {AllTimeframes}] : entry \in EntryPrices}

-----------------------------------------------------------------------------
(* The RiskManager as a state machine: the ledger and the drawdown value   *)
(* are its state, every public method is an action.                        *)

Idle == [name |-> "none"]

NoResult == [outcome |-> "none"]

Init ==
    /\ trades = <<>>
    /\ current_drawdown = QZero
    /\ request \in DailyRequests
    /\ op = Idle
    /\ result = NoResult

\* a ledger that keeps the latest trade only
RecordTradeKeepingLatest ==
    \E pnl \in TradePnls :
        /\ Len(trades) < MaxTrades
        /\ trades' = <<[pnl |-> pnl]>>
        /\ op' = [name |-> "record_trade"]
        /\ result' = Returned("None")
        /\ UNCHANGED <<current_drawdown, request>>

\* RiskManager.record_trade
RecordTrade ==
    \E pnl \in TradePnls :
        /\ Len(trades) < MaxTrades
        /\ trades' = Append(trades, [pnl |-> pnl])
        /\ op' = [name |-> "record_trade"]
        /\ result' = Returned("None")
        /\ UNCHANGED <<current_drawdown, request>>

ValidateTrade ==
    /\ op' = [name |-> "validate_trade"]
    /\ result' = Returned(validate_trade(request.signal, request.confidence, current_drawdown))
    /\ UNCHANGED <<trades, current_drawdown, request>>

\* Python's None
PyNone == [none |-> TRUE]

\* risk_per_trade as the call passes it: left out, or a fraction of the balance
RiskArguments == {PyNone, Pct(1), Pct(5)}

\* risk_per_trade after the default is filled in
RiskPerTradeOf(risk_per_trade) ==
    IF risk_per_trade = PyNone THEN Pct(RiskPerTradePct) ELSE risk_per_trade

\* calculate_position_size with the stop at the entry and 2 x ATR away from it
CalculatePositionSize ==
    \E a \in ATRValues, r \in RiskArguments :
        LET stop == Level(request.entry_price, -1, 2, a)
        IN /\ op' = [name |-> "calculate_position_size", stop_loss_price |-> stop,
                     risk_per_trade |-> r]
           /\ result' = Returned(calculate_position_size(
                            request.account_balance, request.entry_price, stop,
                            RiskPerTradeOf(r)))
           /\ UNCHANGED <<trades, current_drawdown, request>>

\* create_trade_plan on the daily frame, as analyze_pair calls it
CreateTradePlan ==
    /\ "1d" \in DOMAIN request.dataframes
    /\ ~request.dataframes["1d"].empty
    /\ op' = [name |-> "create_trade_plan"]
    /\ result' = create_trade_plan(request.signal, request.entry_price, request.confidence,
                                   request.account_balance, request.dataframes["1d"].row,
                                   current_drawdown)
    /\ UNCHANGED <<trades, current_drawdown, request>>

CreateMultiTimeframeTradePlans ==
    /\ op' = [name |-> "create_multi_timeframe_trade_plans"]
    /\ result' = create_multi_timeframe_trade_plans(
                     request.signal, request.entry_price, request.confidence,
                     request.account_balance, request.dataframes, request.timeframes,
                     current_drawdown)
    /\ UNCHANGED <<trades, current_drawdown, request>>

Next ==
    \/ RecordTrade
    \/ ValidateTrade
    \/ CalculatePositionSize
    \/ CreateTradePlan
    \/ CreateMultiTimeframeTradePlans

Spec == Init /\ [][Next]_vars

\* The trade planner alone, over every dict of frames.
InitPlanner ==
    /\ trades = <<>>
    /\ current_drawdown = QZero
    /\ request \in PlanRequests
    /\ op = Idle
    /\ result = NoResult

NextPlanner ==
    \/ CreateTradePlan
    \/ CreateMultiTimeframeTradePlans

SpecPlanner == InitPlanner /\ [][NextPlanner]_vars

-----------------------------------------------------------------------------
(* Properties of the trade planner.                                        *)

PlanOps == {"create_trade_plan", "create_multi_timeframe_trade_plans"}

IsReturned == result.outcome = "returned"

\* the last call was create_multi_timeframe_trade_plans and it returned an approved plan
ApprovedMulti ==
    /\ op.name = "create_multi_timeframe_trade_plans"
    /\ IsReturned
    /\ result.value.approved

PricesOf(ladder) == {ladder[k].price : k \in DOMAIN ladder}

\* C1: in every approved result of create_multi_timeframe_trade_plans, in every
\* timeframe plan, a BUY has every stop-loss strictly below the entry price and
\* every take-profit strictly above it, and a SELL the mirror image.
C1_StrictSides ==
    ApprovedMulti =>
        \A tf \in DOMAIN result.value.timeframe_plans :
            LET plan == result.value.timeframe_plans[tf]
                entry == result.value.entry_price
            IN IF result.value.signal = "BUY"
               THEN /\ \A p \in PricesOf(plan.stop_losses) : QLt(p, entry)
                    /\ \A p \in PricesOf(plan.take_profits) : QGt(p, entry)
               ELSE /\ \A p \in PricesOf(plan.stop_losses) : QGt(p, entry)
                    /\ \A p \in PricesOf(plan.take_profits) : QLt(p, entry)

RECURSIVE SumClosePct(_, _)
SumClosePct(ladder, keys) ==
    IF keys = {} THEN 0
    ELSE LET k == CHOOSE x \in keys : TRUE
         IN ladder[k].position_close_pct + SumClosePct(ladder, keys \ {k})

\* C2: the position_close_pct values of every generated take-profit ladder
\* sum to exactly 100.
C2_ClosePctSumTo100 ==
    ApprovedMulti =>
        \A tf \in DOMAIN result.value.timeframe_plans :
            LET ladder == result.value.timeframe_plans[tf].take_profits
            IN SumClosePct(ladder, DOMAIN ladder) = 100

\* a SELL plan and a BUY plan each with two timeframe ladders
C2_Witness ==
    /\ ApprovedMulti
    /\ result.value.signal = "SELL"
    /\ Cardinality(DOMAIN result.value.timeframe_plans) = 2
    /\ \A tf \in DOMAIN result.value.timeframe_plans :
           DOMAIN result.value.timeframe_plans[tf].take_profits =
               {"tp1_quick", "tp2_conservative", "tp3_moderate", "tp4_aggressive"}

ConfidenceSufficient == QGe(request.confidence, min_confidence)

\* C3: a plan request returns approved=false with reasons when the signal is
\* HOLD or the confidence is below min_confidence, returns approved=true when
\* the signal is BUY or SELL, the confidence suffices and the drawdown limit
\* is not exceeded, and a rejected result carries no price levels or plans.
C3_ValidationOutcome ==
    op.name \in PlanOps =>
        /\ (request.signal = "HOLD" \/ ~ConfidenceSufficient) =>
               /\ IsReturned
               /\ ~result.value.approved
               /\ result.value.reasons # <<>>
        /\ (request.signal # "HOLD" /\ ConfidenceSufficient
                /\ ~QGt(current_drawdown, max_drawdown)) =>
               /\ IsReturned
               /\ result.value.approved
        /\ (IsReturned /\ ~result.value.approved) =>
               DOMAIN result.value = {"approved", "signal", "reasons"}

\* the equity curve of the ledger, from the account balance
RECURSIVE Equity(_, _, _)
Equity(balance, ledger, i) ==
    IF i = 0 THEN balance ELSE Equity(balance, ledger, i - 1) + ledger[i].pnl

\* peak-to-trough decline of the equity over the ledger, as a fraction of the peak
LedgerDrawdownExceeds(balance, ledger, limit) ==
    \E i \in 0..Len(ledger), j \in 0..Len(ledger) :
        /\ i <= j
        /\ Equity(balance, ledger, i) > 0
        /\ QGt(Q(Equity(balance, ledger, i) - Equity(balance, ledger, j),
                 Equity(balance, ledger, i)), limit)

\* C4: once the recorded trades put the drawdown above max_drawdown, a plan
\* request with a BUY or SELL signal and sufficient confidence that returns,
\* returns approved=false with a drawdown reason.
C4_DrawdownRejects ==
    (/\ op.name \in PlanOps
     /\ request.signal # "HOLD"
     /\ ConfidenceSufficient
     /\ LedgerDrawdownExceeds(request.account_balance.n, trades, max_drawdown)
     /\ IsReturned)
        => /\ ~result.value.approved
           /\ \E i \in DOMAIN result.value.reasons :
                  result.value.reasons[i] = "Drawdown exceeds limit"

\* the requested timeframes whose frame is present and not empty
ExpectedTimeframes ==
    {tf \in SeqToSet(request.timeframes) :
        tf \in DOMAIN request.dataframes /\ ~request.dataframes[tf].empty}

FullPlan(plan) ==
    /\ Cardinality(DOMAIN plan.entry_points) = 3
    /\ Cardinality(DOMAIN plan.stop_losses) = 5
    /\ \A k \in DOMAIN plan.stop_losses :
           ("recommended" \in DOMAIN plan.stop_losses[k]) <=> (k = "standard_2atr")
    /\ plan.stop_losses["standard_2atr"].atr_multiple = 2
    /\ Cardinality(DOMAIN plan.take_profits) = 4
    /\ DOMAIN plan.position_sizing =
           {"position_size_lots", "position_size_units", "risk_amount", "risk_percentage"}
    /\ DOMAIN plan.risk_reward_ratios = DOMAIN plan.take_profits
    /\ "duration_minutes" \in DOMAIN plan.expected_execution
    /\ "style" \in DOMAIN plan.trading_strategy

\* C5: every invocation of create_multi_timeframe_trade_plans ends REJECTED
\* (approved=false, reasons, no timeframe plans) or APPROVED with a full plan
\* for exactly the requested timeframes whose frame is present and not empty.
C5_TwoOutcomes ==
    op.name = "create_multi_timeframe_trade_plans" =>
        /\ IsReturned
        /\ \/ /\ ~result.value.approved
              /\ result.value.reasons # <<>>
              /\ "timeframe_plans" \notin DOMAIN result.value
           \/ /\ result.value.approved
              /\ DOMAIN result.value.timeframe_plans = ExpectedTimeframes
              /\ \A tf \in ExpectedTimeframes : FullPlan(result.value.timeframe_plans[tf])

\* C6: a zero risk distance is reported as a structured error result: the
\* planner and calculate_position_size return and never raise.
C6_NoRaise ==
    op.name \in PlanOps \cup {"calculate_position_size"} =>
        /\ IsReturned
        /\ (op.name = "calculate_position_size"
              /\ op.stop_loss_price = request.entry_price) =>
               "error" \in DOMAIN result.value

-----------------------------------------------------------------------------
(* MultiTimeframeAnalyzer.get_timeframe_consensus                          *)

\* d.get(key, default) of a Python dict
DictGet(d, key, default) == IF key \in DOMAIN d THEN d[key] ELSE default

\* the order analyze_pair fetches and analyzes the timeframes in, which is
\* the iteration order of the dict of analyses
ConfigTimeframes == <<"1d", "4h", "1h", "15m">>

\* the timeframe_weights default of get_timeframe_consensus
DefaultTimeframeWeights ==
    [tf \in {"1d", "4h", "1h", "15m"} |->
        CASE tf = "1d" -> Q(4, 10) [] tf = "4h" -> Q(3, 10)
          [] tf = "1h" -> Q(2, 10) [] tf = "15m" -> Q(1, 10)]

\* the signal get_timeframe_consensus counts a timeframe by
EnhancedSignalOf(analysis) ==
    DictGet(analysis, "enhanced_signal", DictGet(analysis, "current_consensus", "HOLD"))

\* the weight of one timeframe, not scaled by its confidence
WeightIgnoringConfidence(analyses, timeframe_weights, tf) ==
    DictGet(timeframe_weights, tf, Q(1, 10))

\* weight * signal_confidence of one timeframe
ConfidenceWeight(analyses, timeframe_weights, tf) ==
    QMul(DictGet(timeframe_weights, tf, Q(1, 10)),
         DictGet(analyses[tf], "signal_confidence", Q(1, 2)))

RECURSIVE WeightedTotal(_, _, _, _, _)
WeightedTotal(analyses, timeframe_weights, order, i, side) ==
    IF i = 0 THEN QZero
    ELSE LET tf == order[i]
             rest == WeightedTotal(analyses, timeframe_weights, order, i - 1, side)
         IN IF EnhancedSignalOf(analyses[tf]) = side
            THEN QAdd(rest, ConfidenceWeight(analyses, timeframe_weights, tf))
            ELSE rest

\* the reversals_detected entry of a timeframe
ReversalAlert(analyses, tf) ==
    [timeframe |-> tf,
     type |-> analyses[tf].reversal_detection.reversal_type,
     strength |-> analyses[tf].reversal_detection.reversal_strength,
     warning_level |-> analyses[tf].reversal_detection.warning_level]

HasReversal(analysis) ==
    DictGet(DictGet(analysis, "reversal_detection", <<>>), "is_reversal", FALSE)

\* the decision of get_timeframe_consensus taken on the weighted totals
\* alone, without the agreement count
DecideByWeightOnly(weighted_buy, weighted_sell, buy_count, sell_count, hold_count, min_agree) ==
    IF QGt(weighted_buy, weighted_sell)
    THEN [consensus |-> "BUY", agreement_count |-> buy_count, confidence |-> weighted_buy]
    ELSE IF QGt(weighted_sell, weighted_buy)
    THEN [consensus |-> "SELL", agreement_count |-> sell_count, confidence |-> weighted_sell]
    ELSE [consensus |-> "HOLD", agreement_count |-> hold_count, confidence |-> Q(1, 2)]

\* the "Determine consensus" step of get_timeframe_consensus
DecideConsensus(weighted_buy, weighted_sell, buy_count, sell_count, hold_count, min_agree) ==
    IF QGt(weighted_buy, weighted_sell) /\ buy_count >= min_agree
    THEN [consensus |-> "BUY", agreement_count |-> buy_count, confidence |-> weighted_buy]
    ELSE IF QGt(weighted_sell, weighted_buy) /\ sell_count >= min_agree
    THEN [consensus |-> "SELL", agreement_count |-> sell_count, confidence |-> weighted_sell]
    ELSE [consensus |-> "HOLD", agreement_count |-> hold_count, confidence |-> Q(1, 2)]

\* MultiTimeframeAnalyzer.get_timeframe_consensus; timeframe_weights and
\* min_timeframes_agree are the values of the configuration
get_timeframe_consensus(analyses, timeframe_weights, min_timeframes_agree) ==
    IF DOMAIN analyses = {}
    THEN [consensus |-> "HOLD", agreement_count |-> 0, total_timeframes |-> 0,
          confidence |-> QZero]
    ELSE LET order == SelectSeq(ConfigTimeframes, LAMBDA tf : tf \in DOMAIN analyses)
             count(side) == Cardinality({tf \in DOMAIN analyses :
                                            EnhancedSignalOf(analyses[tf]) = side})
             buy_count == count("BUY")
             sell_count == count("SELL")
             hold_count == Cardinality(DOMAIN analyses) - buy_count - sell_count
             weighted_buy == WeightedTotal(analyses, timeframe_weights, order, Len(order), "BUY")
             weighted_sell == WeightedTotal(analyses, timeframe_weights, order, Len(order), "SELL")
             decision == DecideConsensus(weighted_buy, weighted_sell, buy_count, sell_count,
                                         hold_count, min_timeframes_agree)
             reversing == SelectSeq(order, LAMBDA tf : HasReversal(analyses[tf]))
             reversals_detected == [i \in 1..Len(reversing) |-> ReversalAlert(analyses, reversing[i])]
         IN [consensus |-> decision.consensus,
             agreement_count |-> decision.agreement_count,
             total_timeframes |-> Cardinality(DOMAIN analyses),
             confidence |-> decision.confidence,
             buy_timeframes |-> buy_count,
             sell_timeframes |-> sell_count,
             hold_timeframes |-> hold_count,
             reversals_detected |-> reversals_detected,
             has_reversal_warning |-> Len(reversals_detected) > 0]

NoReversal ==
    [is_reversal |-> FALSE, reversal_strength |-> QZero, reversal_type |-> "NONE",
     warning_level |-> "LOW"]

ReversalTo(type, strength, level) ==
    [is_reversal |-> TRUE, reversal_strength |-> strength, reversal_type |-> type,
     warning_level |-> level]

\* the part of a timeframe analysis the consensus reads
Analysis(signal, confidence, reversal) ==
    [enhanced_signal |-> signal, signal_confidence |-> confidence,
     reversal_detection |-> reversal]

\* analyses as analyze_timeframe makes them: BUY and SELL carry a confidence
\* above 0.3, HOLD one of at most 0.3
TimeframeAnalyses ==
    {Analysis("BUY", Q(6, 10), NoReversal),
     Analysis("BUY", QInt(1), NoReversal),
     Analysis("BUY", Q(4, 10), ReversalTo("BEARISH_TO_BULLISH", Q(4, 5), "HIGH")),
     Analysis("SELL", Q(6, 10), NoReversal),
     Analysis("SELL", QInt(1), NoReversal),
     Analysis("SELL", Q(4, 10), ReversalTo("BULLISH_TO_BEARISH", Q(3, 5), "MEDIUM")),
     Analysis("HOLD", Q(2, 10), NoReversal)}

AnalysesDicts ==
    UNION {[tfs -> TimeframeAnalyses] : tfs \in SUBSET SeqToSet(ConfigTimeframes)}

\* the default weights, and a dict that names the daily timeframe alone, with
\* a weight of 2.0
TimeframeWeightDicts == {DefaultTimeframeWeights, [tf \in {"1d"} |-> QInt(2)]}

\* confluence.min_timeframes_agree: the app's default and the configuration's
MinAgreeValues == {2, 3}

ConsensusRequests ==
    [analyses : AnalysesDicts, timeframe_weights : TimeframeWeightDicts,
     min_timeframes_agree : MinAgreeValues]

InitConsensus ==
    /\ trades = <<>>
    /\ current_drawdown = QZero
    /\ request \in ConsensusRequests
    /\ op = Idle
    /\ result = NoResult

GetTimeframeConsensus ==
    /\ op' = [name |-> "get_timeframe_consensus"]
    /\ result' = Returned(get_timeframe_consensus(request.analyses, request.timeframe_weights,
                                                  request.min_timeframes_agree))
    /\ UNCHANGED <<trades, current_drawdown, request>>

NextConsensus == GetTimeframeConsensus

SpecConsensus == InitConsensus /\ [][NextConsensus]_vars

ConsensusDone == op.name = "get_timeframe_consensus"

\* the number of timeframes of the request whose enhanced signal is `side`
SideCount(side) ==
    Cardinality({tf \in DOMAIN request.analyses :
                    request.analyses[tf].enhanced_signal = side})

\* C7: the consensus is never BUY (SELL) when fewer than min_timeframes_agree
\* timeframes have the enhanced signal BUY (SELL), whatever the weighted
\* totals are; with both counts below the minimum it is HOLD.
C7_HoldBelowAgreement ==
    ConsensusDone =>
        /\ SideCount("BUY") < request.min_timeframes_agree
               => result.value.consensus # "BUY"
        /\ SideCount("SELL") < request.min_timeframes_agree
               => result.value.consensus # "SELL"
        /\ (SideCount("BUY") < request.min_timeframes_agree
              /\ SideCount("SELL") < request.min_timeframes_agree)
               => result.value.consensus = "HOLD"

\* one daily BUY of weight 2.0 against two SELLs: the weighted BUY total is
\* the larger one by far, the BUY count is below the minimum, the result HOLD
C7_Witness ==
    /\ ConsensusDone
    /\ SideCount("BUY") = 1
    /\ SideCount("SELL") = 2
    /\ request.min_timeframes_agree = 3
    /\ "1d" \in DOMAIN request.analyses
    /\ request.analyses["1d"] = Analysis("BUY", QInt(1), NoReversal)
    /\ request.timeframe_weights["1d"] = QInt(2)
    /\ result.value.consensus = "HOLD"

-----------------------------------------------------------------------------
(* EnsembleVoting.vote                                                     *)

\* the number of entries of the dict whose value is `signal`
CountSignals(signals, signal) == Cardinality({k \in DOMAIN signals : signals[k] = signal})

\* the technical consensus of vote: majority signal and its share
TechnicalConsensus(technical_signals) ==
    LET tech_buy == CountSignals(technical_signals, "BUY")
        tech_sell == CountSignals(technical_signals, "SELL")
        tech_total == Cardinality(DOMAIN technical_signals)
    IN IF tech_buy > tech_sell
       THEN [signal |-> "BUY", confidence |-> Q(tech_buy, tech_total)]
       ELSE IF tech_sell > tech_buy
       THEN [signal |-> "SELL", confidence |-> Q(tech_sell, tech_total)]
       ELSE [signal |-> "HOLD", confidence |-> Q(1, 2)]

\* the weighted score vote gives to `side`
VoteScore(side, tech_signal, tech_confidence, ml_signal, ml_confidence, weights) ==
    QAdd(IF tech_signal = side THEN QMul(weights.technical, tech_confidence) ELSE QZero,
         IF ml_signal = side THEN QMul(weights.ml, ml_confidence) ELSE QZero)

\* the final decision taken on the larger score alone, without the 0.5 floor
FinalDecisionNoFloor(buy_score, sell_score) ==
    IF QGt(buy_score, sell_score)
    THEN [signal |-> "BUY", confidence |-> buy_score]
    ELSE IF QGt(sell_score, buy_score)
    THEN [signal |-> "SELL", confidence |-> sell_score]
    ELSE [signal |-> "HOLD", confidence |-> Q(1, 2)]

\* the "Final decision" step of vote
FinalDecision(buy_score, sell_score) ==
    IF QGt(buy_score, sell_score) /\ QGt(buy_score, Q(1, 2))
    THEN [signal |-> "BUY", confidence |-> buy_score]
    ELSE IF QGt(sell_score, buy_score) /\ QGt(sell_score, Q(1, 2))
    THEN [signal |-> "SELL", confidence |-> sell_score]
    ELSE [signal |-> "HOLD", confidence |-> Q(1, 2)]

\* EnsembleVoting.vote
vote(technical_signals, ml_prediction, weights) ==
    LET tech == TechnicalConsensus(technical_signals)
        ml_signal == ml_prediction.signal
        ml_confidence == ml_prediction.confidence
        buy_score == VoteScore("BUY", tech.signal, tech.confidence, ml_signal, ml_confidence, weights)
        sell_score == VoteScore("SELL", tech.signal, tech.confidence, ml_signal, ml_confidence, weights)
        final == FinalDecision(buy_score, sell_score)
    IN [signal |-> final.signal,
        confidence |-> final.confidence,
        technical_signal |-> tech.signal,
        technical_confidence |-> tech.confidence,
        ml_signal |-> ml_signal,
        ml_confidence |-> ml_confidence]

\* the keys of the signal map of a timeframe analysis
IndicatorNames == {"ma_cross", "ema_cross", "rsi", "macd", "stochastic", "support_resistance"}

\* the signal map of the daily analysis, or the empty dict when there is none
TechnicalSignalDicts == {<<>>} \cup [IndicatorNames -> Signals]

\* the classifier's answers, among them the HOLD/0.0 of a missing model
MLPredictions ==
    [signal : Signals, confidence : {QZero, Q(4, 10), Q(7, 10), QInt(1)}]

\* the weights analyze_pair passes, which are the defaults, and an uneven pair
VoteWeights == {[ml |-> Q(1, 2), technical |-> Q(1, 2)], [ml |-> Q(3, 10), technical |-> Q(7, 10)]}

VoteRequests ==
    [technical_signals : TechnicalSignalDicts, ml_prediction : MLPredictions,
     weights : VoteWeights]

InitVote ==
    /\ trades = <<>>
    /\ current_drawdown = QZero
    /\ request \in VoteRequests
    /\ op = Idle
    /\ result = NoResult

Vote ==
    /\ op' = [name |-> "vote"]
    /\ result' = Returned(vote(request.technical_signals, request.ml_prediction, request.weights))
    /\ UNCHANGED <<trades, current_drawdown, request>>

NextVote == Vote

SpecVote == InitVote /\ [][NextVote]_vars

VoteDone == op.name = "vote"

\* buy_score and sell_score, from the components vote reports
ReportedScore(side) ==
    VoteScore(side, result.value.technical_signal, result.value.technical_confidence,
              result.value.ml_signal, result.value.ml_confidence, request.weights)

\* C8: vote returns HOLD with confidence 0.5 whenever buy_score and sell_score
\* are both at most 0.5, also when one exceeds the other; it returns BUY
\* (SELL) only when buy_score (sell_score) is above the other score and 0.5.
C8_HoldAtOrBelowHalf ==
    VoteDone =>
        /\ (QLe(ReportedScore("BUY"), Q(1, 2)) /\ QLe(ReportedScore("SELL"), Q(1, 2)))
               => (result.value.signal = "HOLD" /\ result.value.confidence = Q(1, 2))
        /\ result.value.signal = "BUY"
               => (QGt(ReportedScore("BUY"), ReportedScore("SELL"))
                     /\ QGt(ReportedScore("BUY"), Q(1, 2)))
        /\ result.value.signal = "SELL"
               => (QGt(ReportedScore("SELL"), ReportedScore("BUY"))
                     /\ QGt(ReportedScore("SELL"), Q(1, 2)))
        /\ result.value.technical_signal = TechnicalConsensus(request.technical_signals).signal
        /\ result.value.ml_signal = request.ml_prediction.signal

\* the technical side and the classifier both say SELL, the SELL score is
\* exactly 0.5 and the BUY score 0: the result is HOLD
C8_Witness ==
    /\ VoteDone
    /\ result.value.technical_signal = "SELL"
    /\ result.value.ml_signal = "SELL"
    /\ ReportedScore("SELL") = Q(1, 2)
    /\ ReportedScore("BUY") = QZero
    /\ result.value.signal = "HOLD"
    /\ result.value.confidence = Q(1, 2)

-----------------------------------------------------------------------------
(* TrendMomentumAnalyzer: momentum and reversal detection.  A dataframe is *)
(* the sequence of its candles, oldest first; a candle is a record of the  *)
(* columns Open, High, Low, Close and Volume.                              *)

IntMax(a, b) == IF b > a THEN b ELSE a

\* df.iloc[-k:] for k >= 0; -0 is 0, so k = 0 selects every row
IlocLast(df, k) ==
    IF k = 0 THEN df ELSE SubSeq(df, IntMax(Len(df) - k, 0) + 1, Len(df))

\* df.iloc[:k] for k >= 0
IlocFirst(df, k) == SubSeq(df, 1, IF k < Len(df) THEN k ELSE Len(df))

\* df.iloc[-a:-b] for a >= b >= 0; a stop of -0 is 0 and selects nothing
IlocBetween(df, a, b) ==
    LET start == IF a = 0 THEN 0 ELSE IntMax(Len(df) - a, 0)
        stop == IF b = 0 THEN 0 ELSE IntMax(Len(df) - b, 0)
    IN SubSeq(df, start + 1, stop)

RECURSIVE SumColumn(_, _)
SumColumn(df, column) ==
    IF df = <<>> THEN QZero ELSE QAdd(df[1][column], SumColumn(Tail(df), column))

\* df[column].mean() of a non-empty frame
MeanColumn(df, column) == QDiv(SumColumn(df, column), QInt(Len(df)))

\* what calculate_trend_momentum returns for a frame shorter than lookback
NeutralMomentum ==
    [direction |-> "NEUTRAL", strength |-> QZero, consistency |-> QZero,
     momentum_score |-> QZero]

\* the direction by candle counts, with the strength fixed at 0.5
CandleBiasHalfStrength(bullish_candles, bearish_candles, total_candles) ==
    IF 2 * bullish_candles > 3 * bearish_candles
    THEN [direction |-> "BULLISH", strength |-> Q(1, 2)]
    ELSE IF 2 * bearish_candles > 3 * bullish_candles
    THEN [direction |-> "BEARISH", strength |-> Q(1, 2)]
    ELSE [direction |-> "NEUTRAL", strength |-> Q(1, 2)]

\* the direction by candle counts, a side winning only with more than twice
\* the candles of the other
CandleBiasOverDouble(bullish_candles, bearish_candles, total_candles) ==
    IF bullish_candles > 2 * bearish_candles
    THEN [direction |-> "BULLISH", strength |-> Q(bullish_candles, total_candles)]
    ELSE IF bearish_candles > 2 * bullish_candles
    THEN [direction |-> "BEARISH", strength |-> Q(bearish_candles, total_candles)]
    ELSE [direction |-> "NEUTRAL", strength |-> Q(1, 2)]

\* the direction and strength by candle counts
CandleBias(bullish_candles, bearish_candles, total_candles) ==
    IF 2 * bullish_candles > 3 * bearish_candles
    THEN [direction |-> "BULLISH", strength |-> Q(bullish_candles, total_candles)]
    ELSE IF 2 * bearish_candles > 3 * bullish_candles
    THEN [direction |-> "BEARISH", strength |-> Q(bearish_candles, total_candles)]
    ELSE [direction |-> "NEUTRAL", strength |-> Q(1, 2)]

\* TrendMomentumAnalyzer.calculate_trend_momentum
calculate_trend_momentum(df, lookback) ==
    IF Len(df) < lookback THEN Returned(NeutralMomentum)
    ELSE LET recent_df == IlocLast(df, lookback)
             total_candles == Len(recent_df)
             bullish_candles ==
                 Cardinality({i \in 1..total_candles : QGt(recent_df[i].Close, recent_df[i].Open)})
             bearish_candles ==
                 Cardinality({i \in 1..total_candles : QLt(recent_df[i].Close, recent_df[i].Open)})
             first_close == recent_df[1].Close
             last_close == recent_df[total_candles].Close
             price_momentum ==
                 QMul(QDiv(QSub(last_close, first_close), first_close), QInt(100))
             consistency == Q(IntMax(bullish_candles, bearish_candles), total_candles)
             higher_highs ==
                 Cardinality({i \in 2..total_candles : QGt(recent_df[i].High, recent_df[i - 1].High)})
             lower_lows ==
                 Cardinality({i \in 2..total_candles : QLt(recent_df[i].Low, recent_df[i - 1].Low)})
             volume_trend ==
                 QDiv(MeanColumn(IlocLast(recent_df, 5), "Volume"),
                      MeanColumn(IlocFirst(recent_df, 5), "Volume"))
             bias == CandleBias(bullish_candles, bearish_candles, total_candles)
             pattern == IF bias.direction = "BULLISH" THEN higher_highs ELSE lower_lows
             raw_score ==
                 QAdd(QAdd(QAdd(QMul(consistency, Q(3, 10)),
                                QMul(QDiv(QAbs(price_momentum), QInt(10)), Q(3, 10))),
                           QMul(bias.strength, Q(2, 10))),
                      QMul(Q(pattern, total_candles - 1), Q(2, 10)))
         IN IF total_candles = 0 THEN Raised("IndexError")
            ELSE IF total_candles = 1 THEN Raised("ZeroDivisionError")
            ELSE Returned([direction |-> bias.direction,
                           strength |-> bias.strength,
                           consistency |-> consistency,
                           momentum_score |-> QMin(raw_score, QInt(1)),
                           price_change_pct |-> price_momentum,
                           bullish_candles |-> bullish_candles,
                           bearish_candles |-> bearish_candles,
                           higher_highs |-> higher_highs,
                           lower_lows |-> lower_lows,
                           volume_trend |-> volume_trend])

\* what detect_reversal returns for a frame shorter than the two lookbacks
NoReversalDetected ==
    [is_reversal |-> FALSE, reversal_strength |-> QZero, reversal_type |-> "NONE",
     previous_trend |-> "NEUTRAL", warning_level |-> "LOW"]

\* the warning level of a reversal by the consistency of the recent candles
WarningLevel(consistency) ==
    IF QGt(consistency, Q(7, 10)) THEN "HIGH"
    ELSE IF QGt(consistency, Q(5, 10)) THEN "MEDIUM"
    ELSE "LOW"

\* a reversal flagged on any change of direction after a strong trend
ReversalOnAnyChange(historical_momentum, recent_momentum) ==
    IF QGt(historical_momentum.momentum_score, Q(6, 10))
          /\ historical_momentum.direction # "NEUTRAL"
    THEN [is_reversal |-> TRUE,
          reversal_strength |-> recent_momentum.consistency,
          reversal_type |-> IF historical_momentum.direction = "BULLISH"
                            THEN "BULLISH_TO_BEARISH" ELSE "BEARISH_TO_BULLISH",
          warning_level |-> WarningLevel(recent_momentum.consistency)]
    ELSE [is_reversal |-> FALSE, reversal_strength |-> QZero,
          reversal_type |-> "NONE", warning_level |-> "LOW"]

\* the reversal test of detect_reversal: a strong historical trend followed
\* by the opposite direction
ReversalTest(historical_momentum, recent_momentum) ==
    IF QGt(historical_momentum.momentum_score, Q(6, 10))
          /\ historical_momentum.direction = "BULLISH"
          /\ recent_momentum.direction = "BEARISH"
    THEN [is_reversal |-> TRUE,
          reversal_strength |-> recent_momentum.consistency,
          reversal_type |-> "BULLISH_TO_BEARISH",
          warning_level |-> WarningLevel(recent_momentum.consistency)]
    ELSE IF QGt(historical_momentum.momentum_score, Q(6, 10))
          /\ historical_momentum.direction = "BEARISH"
          /\ recent_momentum.direction = "BULLISH"
    THEN [is_reversal |-> TRUE,
          reversal_strength |-> recent_momentum.consistency,
          reversal_type |-> "BEARISH_TO_BULLISH",
          warning_level |-> WarningLevel(recent_momentum.consistency)]
    ELSE [is_reversal |-> FALSE, reversal_strength |-> QZero,
          reversal_type |-> "NONE", warning_level |-> "LOW"]

\* the dictionary detect_reversal returns, from the two momenta and the test
ReversalReport(historical_momentum, recent_momentum, test) ==
    [is_reversal |-> test.is_reversal,
     reversal_strength |-> test.reversal_strength,
     reversal_type |-> test.reversal_type,
     previous_trend |-> historical_momentum.direction,
     previous_trend_strength |-> historical_momentum.momentum_score,
     recent_trend |-> recent_momentum.direction,
     recent_trend_strength |-> recent_momentum.momentum_score,
     warning_level |-> test.warning_level,
     historical_momentum |-> historical_momentum,
     recent_momentum |-> recent_momentum]

\* detect_reversal once the momentum of the two stretches is worked out
CompareMomentum(historical, recent) ==
    IF historical.outcome = "raised" THEN historical
    ELSE IF recent.outcome = "raised" THEN recent
    ELSE Returned(ReversalReport(historical.value, recent.value,
                                 ReversalTest(historical.value, recent.value)))

\* TrendMomentumAnalyzer.detect_reversal
detect_reversal(df, recent_lookback, historical_lookback) ==
    IF Len(df) < historical_lookback + recent_lookback THEN Returned(NoReversalDetected)
    ELSE CompareMomentum(
             calculate_trend_momentum(
                 IlocBetween(df, historical_lookback + recent_lookback, recent_lookback),
                 historical_lookback),
             calculate_trend_momentum(IlocLast(df, recent_lookback), recent_lookback))

\* the longest dataframe enumerated
MaxCandles == 5

Candle(open, high, low, close, volume) ==
    [Open |-> QInt(open), High |-> QInt(high), Low |-> QInt(low),
     Close |-> QInt(close), Volume |-> QInt(volume)]

\* two rising candles, a mildly falling one and a sharply falling one
CandleKinds ==
    {Candle(100, 103, 99, 102, 1000), Candle(102, 106, 101, 105, 1500),
     Candle(105, 106, 101, 102, 1200), Candle(102, 103, 89, 90, 3000)}

CandleFrames == UNION {[1..n -> CandleKinds] : n \in 0..MaxCandles}

RecentLookbacks == {0, 1, 2}

HistoricalLookbacks == {0, 2, 3}

\* the candles of a steady rise from 1000: every candle closes `step` above
\* the previous close and above its own open; the highs rise with the
\* closes, stay at one level above the last close, or fall towards it
TrendCandle(i, n, step, highs) ==
    LET close == 1000 + i * step
        top == 1000 + n * step + 10
    IN Candle(close - 1,
              IF highs = "rising" THEN close + 2
              ELSE IF highs = "flat" THEN top
              ELSE top + (n - i),
              close - 3, close, 1000 + i)

TrendFrame(n, step, highs) == [i \in 1..n |-> TrendCandle(i, n, step, highs)]

\* steady rises around the default windows of 20 and 20 + 5 candles
TrendFrames ==
    {TrendFrame(n, step, highs) :
         n \in {19, 20, 21, 25}, step \in {1, 5, 20}, highs \in {"rising", "flat", "falling"}}

\* short frames under small lookbacks, and steady rises under the default
\* lookbacks of analyze_timeframe
MomentumRequests ==
    [df : CandleFrames, recent_lookback : RecentLookbacks,
     historical_lookback : HistoricalLookbacks]
        \cup [df : TrendFrames, recent_lookback : {5}, historical_lookback : {20}]

InitMomentum ==
    /\ trades = <<>>
    /\ current_drawdown = QZero
    /\ request \in MomentumRequests
    /\ op = Idle
    /\ result = NoResult

CalculateTrendMomentum ==
    /\ op' = [name |-> "calculate_trend_momentum"]
    /\ result' = calculate_trend_momentum(request.df, request.historical_lookback)
    /\ UNCHANGED <<trades, current_drawdown, request>>

DetectReversal ==
    /\ op' = [name |-> "detect_reversal"]
    /\ result' = detect_reversal(request.df, request.recent_lookback, request.historical_lookback)
    /\ UNCHANGED <<trades, current_drawdown, request>>

NextMomentum == CalculateTrendMomentum \/ DetectReversal

SpecMomentum == InitMomentum /\ [][NextMomentum]_vars

\* the direction calculate_trend_momentum finds in a segment
SegmentDirection(segment, lookback) ==
    calculate_trend_momentum(segment, lookback).value.direction

\* the historical segment of the request: the candles before the recent ones
HistoricalSegment ==
    IlocBetween(request.df, request.historical_lookback + request.recent_lookback,
                request.recent_lookback)

\* the recent segment of the request
RecentSegment == IlocLast(request.df, request.recent_lookback)

\* C9: whatever the candles and the two lookbacks, detect_reversal does not
\* return is_reversal = true when the historical segment and the recent
\* segment have the same direction (both NEUTRAL included).
C9_NoReversalOnSameDirection ==
    (op.name = "detect_reversal" /\ IsReturned /\ result.value.is_reversal)
        => SegmentDirection(HistoricalSegment, request.historical_lookback)
               # SegmentDirection(RecentSegment, request.recent_lookback)

\* a strong bullish trend that goes on in the recent candles: no reversal
C9_Witness ==
    /\ op.name = "detect_reversal"
    /\ IsReturned
    /\ "recent_trend" \in DOMAIN result.value
    /\ QGt(result.value.previous_trend_strength, Q(6, 10))
    /\ result.value.previous_trend = "BULLISH"
    /\ result.value.recent_trend = "BULLISH"
    /\ SegmentDirection(HistoricalSegment, request.historical_lookback) = "BULLISH"
    /\ SegmentDirection(RecentSegment, request.recent_lookback) = "BULLISH"
    /\ ~result.value.is_reversal

-----------------------------------------------------------------------------
(* TrendMomentumAnalyzer.calculate_weighted_signal                         *)

\* a score that leaves the current signal out
SignalScoreIgnored(current_signal) == QZero

\* signal_scores.get(current_signal, 0.0)
SignalScore(current_signal) ==
    IF current_signal = "BUY" THEN QInt(1)
    ELSE IF current_signal = "SELL" THEN QInt(-1)
    ELSE QZero

\* a momentum score that counts against its own direction
MomentumScoreInverted(momentum) ==
    LET momentum_direction == DictGet(momentum, "direction", "NEUTRAL")
        momentum_strength == DictGet(momentum, "momentum_score", Q(1, 2))
    IN IF momentum_direction = "BULLISH" THEN QNeg(momentum_strength)
       ELSE IF momentum_direction = "BEARISH" THEN momentum_strength
       ELSE QZero

\* the signed momentum score: the strength, negative for a bearish direction
MomentumScore(momentum) ==
    LET momentum_direction == DictGet(momentum, "direction", "NEUTRAL")
        momentum_strength == DictGet(momentum, "momentum_score", Q(1, 2))
    IN IF momentum_direction = "BULLISH" THEN momentum_strength
       ELSE IF momentum_direction = "BEARISH" THEN QNeg(momentum_strength)
       ELSE QZero

\* a reversal adjustment that counts every reversal as bullish
ReversalScoreUnsigned(reversal) ==
    IF DictGet(reversal, "is_reversal", FALSE)
    THEN DictGet(reversal, "reversal_strength", QZero) ELSE QZero

\* the signed reversal adjustment
ReversalScore(reversal) ==
    LET reversal_type == DictGet(reversal, "reversal_type", "None")
        reversal_strength == DictGet(reversal, "reversal_strength", QZero)
    IN IF ~DictGet(reversal, "is_reversal", FALSE) THEN QZero
       ELSE IF reversal_type = "BULLISH_TO_BEARISH" THEN QNeg(reversal_strength)
       ELSE IF reversal_type = "BEARISH_TO_BULLISH" THEN reversal_strength
       ELSE QZero

\* the parts of the reasoning text, in order
ReasoningParts(current_signal, momentum, reversal) ==
    LET parts ==
            (IF current_signal # "HOLD" THEN <<"current">> ELSE <<>>)
            \o (IF DictGet(momentum, "direction", "NEUTRAL") # "NEUTRAL"
                THEN <<"momentum">> ELSE <<>>)
            \o (IF DictGet(reversal, "is_reversal", FALSE)
                   /\ DictGet(reversal, "reversal_type", "None")
                          \in {"BULLISH_TO_BEARISH", "BEARISH_TO_BULLISH"}
                THEN <<"reversal">> ELSE <<>>)
    IN IF parts = <<>> THEN <<"neutral">> ELSE parts

\* TrendMomentumAnalyzer.calculate_weighted_signal; the result is the tuple
\* (final_signal, confidence, reasoning)
calculate_weighted_signal(current_signal, momentum, reversal, current_weight, momentum_weight, reversal_weight) ==
    LET final_score ==
            QAdd(QAdd(QMul(SignalScore(current_signal), current_weight),
                      QMul(MomentumScore(momentum), momentum_weight)),
                 QMul(ReversalScore(reversal), reversal_weight))
        final_signal ==
            IF QGt(final_score, Q(3, 10)) THEN "BUY"
            ELSE IF QLt(final_score, Q(-3, 10)) THEN "SELL"
            ELSE "HOLD"
        confidence == QMin(QAbs(final_score), QInt(1))
    IN <<final_signal, confidence, ReasoningParts(current_signal, momentum, reversal)>>

\* the default weights of calculate_weighted_signal
DefaultSignalWeights == [current |-> Q(4, 10), momentum |-> Q(4, 10), reversal |-> Q(2, 10)]

\* the weights of a call: the defaults and two other splits of 1.0
SignalWeights ==
    {DefaultSignalWeights,
     [current |-> Q(5, 10), momentum |-> Q(3, 10), reversal |-> Q(2, 10)],
     [current |-> Q(2, 10), momentum |-> Q(2, 10), reversal |-> Q(6, 10)]}

MomentumScores == {QZero, Q(1, 4), Q(1, 2), Q(7, 10), QInt(1)}

\* a momentum dict with the keys calculate_weighted_signal reads
Momentum(direction, score) == [direction |-> direction, momentum_score |-> score]

MomentumDicts ==
    {Momentum(direction, score) : direction \in {"BULLISH", "BEARISH", "NEUTRAL"},
                                  score \in MomentumScores}

\* reversal dicts as detect_reversal makes them
ReversalDicts ==
    {NoReversal}
        \cup {ReversalTo(type, strength, WarningLevel(strength)) :
                  type \in {"BULLISH_TO_BEARISH", "BEARISH_TO_BULLISH"},
                  strength \in {Q(3, 5), QInt(1)}}

\* the current signals of a call: the three signals and a string that is none
\* of them
CurrentSignals == Signals \cup {"STRONG_BUY"}

WeightedRequests ==
    [current_signal : CurrentSignals, momentum : MomentumDicts, reversal : ReversalDicts,
     weights : SignalWeights]

InitWeighted ==
    /\ trades = <<>>
    /\ current_drawdown = QZero
    /\ request \in WeightedRequests
    /\ op = Idle
    /\ result = NoResult

CalculateWeightedSignal ==
    /\ op' = [name |-> "calculate_weighted_signal"]
    /\ result' = Returned(calculate_weighted_signal(request.current_signal, request.momentum,
                              request.reversal, request.weights.current,
                              request.weights.momentum, request.weights.reversal))
    /\ UNCHANGED <<trades, current_drawdown, request>>

NextWeighted == CalculateWeightedSignal

SpecWeighted == InitWeighted /\ [][NextWeighted]_vars

WeightedDone == op.name = "calculate_weighted_signal"

\* the momentum direction of the request agrees with its current signal
MomentumAgrees ==
    \/ request.current_signal = "BUY" /\ request.momentum.direction = "BULLISH"
    \/ request.current_signal = "SELL" /\ request.momentum.direction = "BEARISH"

\* the confidence of the request's call with momentum_score replaced by `score`
ConfidenceAt(score) ==
    calculate_weighted_signal(request.current_signal,
                              Momentum(request.momentum.direction, score),
                              request.reversal, request.weights.current,
                              request.weights.momentum, request.weights.reversal)[2]

\* no larger momentum_score gives a smaller confidence than the call returned
NoLargerScoreLowers ==
    \A score \in MomentumScores :
        QGe(score, request.momentum.momentum_score)
            => QGe(ConfidenceAt(score), result.value[2])

\* the reversal adjustment does not outweigh the current signal
ReversalWithinCurrent ==
    QLe(QAbs(QMul(request.weights.reversal, ReversalScore(request.reversal))),
        request.weights.current)

\* C10 as stated: with current_signal, the reversal and the weights fixed and
\* the momentum direction agreeing with current_signal, a larger momentum_score
\* never gives a smaller confidence.
C10_MonotonicInMomentum ==
    (WeightedDone /\ MomentumAgrees) => NoLargerScoreLowers

\* C10 as amended: the same, for calls whose reversal adjustment
\* (reversal_weight * reversal_strength) is at most current_weight.
C10_MonotonicWithinCurrent ==
    (WeightedDone /\ MomentumAgrees /\ ReversalWithinCurrent) => NoLargerScoreLowers

\* a BUY with bullish momentum against a bearish reversal under the default
\* weights: a larger score in the input set gives a strictly larger confidence
C10_Witness ==
    /\ WeightedDone
    /\ request.current_signal = "BUY"
    /\ request.momentum.direction = "BULLISH"
    /\ request.reversal.is_reversal
    /\ request.reversal.reversal_type = "BULLISH_TO_BEARISH"
    /\ request.weights = DefaultSignalWeights
    /\ ReversalWithinCurrent
    /\ \E score \in MomentumScores :
           /\ QGt(score, request.momentum.momentum_score)
           /\ QGt(ConfidenceAt(score), result.value[2])

-----------------------------------------------------------------------------
(* Scenarios of the trade planner.                                         *)

\* the timeframe plans of an approved BUY at entry 1.10000 whose frame carries
\* an ATR of 0.00500
ScenarioPlans ==
    IF ApprovedMulti /\ request.signal = "BUY" /\ request.entry_price = Q(110000, 100000)
    THEN {result.value.timeframe_plans[tf] :
              tf \in {t \in DOMAIN result.value.timeframe_plans :
                          /\ "ATR" \in DOMAIN request.dataframes[t].row
                          /\ request.dataframes[t].row["ATR"] = Q(500, 100000)}}
    ELSE {}

\* the standard stop is 1.09000 and tp2_conservative 1.11000
ScenarioLevels(plan) ==
    /\ plan.stop_losses.standard_2atr.price = Q(109000, 100000)
    /\ plan.take_profits.tp2_conservative.price = Q(111000, 100000)

\* C12 as stated: BUY, entry 1.10000, ATR 0.00500 gives the standard stop
\* 1.09000, tp2_conservative 1.11000 and a risk:reward of 2.0 for
\* tp2_conservative.
C12_RiskRewardTwo ==
    \A plan \in ScenarioPlans :
        /\ ScenarioLevels(plan)
        /\ "tp2_conservative" \in DOMAIN plan.risk_reward_ratios
        /\ plan.risk_reward_ratios["tp2_conservative"] = QInt(2)

\* C12 as amended: the same levels, and a risk:reward of 1.0 for
\* tp2_conservative, which is |1.11 - 1.10| / |1.10 - 1.09|.
C12_RiskRewardOne ==
    \A plan \in ScenarioPlans :
        /\ ScenarioLevels(plan)
        /\ "tp2_conservative" \in DOMAIN plan.risk_reward_ratios
        /\ plan.risk_reward_ratios["tp2_conservative"] = QInt(1)
        /\ plan.risk_reward_ratios["tp2_conservative"] =
               QDiv(QAbs(QSub(plan.take_profits.tp2_conservative.price, request.entry_price)),
                    QAbs(QSub(request.entry_price, plan.stop_losses.standard_2atr.price)))

\* the scenario's plan was produced
C12_Witness ==
    \E plan \in ScenarioPlans :
        /\ ScenarioLevels(plan)
        /\ plan.risk_reward_ratios["tp2_conservative"] = QInt(1)

\* the last call was calculate_position_size with a stop away from the entry
SizedPosition ==
    /\ op.name = "calculate_position_size"
    /\ op.stop_loss_price # request.entry_price

\* the risk fraction of the last calculate_position_size call: the one given,
\* or 0.02
RiskFractionUsed ==
    IF op.risk_per_trade = PyNone THEN Q(2, 100) ELSE op.risk_per_trade

\* the scenario: balance 10000, the default risk, entry 1.10000, stop 1.09000
SizingScenario ==
    /\ SizedPosition
    /\ request.account_balance = QInt(10000)
    /\ op.risk_per_trade = PyNone
    /\ request.entry_price = Q(110000, 100000)
    /\ op.stop_loss_price = Q(109000, 100000)

\* C13: for entry # stop, calculate_position_size returns risk_amount =
\* balance x risk_per_trade (0.02 when not given), position_size_units =
\* risk_amount / |entry - stop| and position_size_lots = units / 100000; the
\* scenario gives risk_amount 200, 20000 units and 0.2 lots.
C13_PositionSize ==
    /\ SizedPosition =>
           /\ IsReturned
           /\ result.value.risk_amount = QMul(request.account_balance, RiskFractionUsed)
           /\ QMul(result.value.position_size_units,
                   QAbs(QSub(request.entry_price, op.stop_loss_price)))
                  = result.value.risk_amount
           /\ QMul(result.value.position_size_lots, QInt(100000))
                  = result.value.position_size_units
    /\ SizingScenario =>
           /\ result.value.risk_amount = QInt(200)
           /\ result.value.position_size_units = QInt(20000)
           /\ result.value.position_size_lots = Q(2, 10)

\* the scenario was computed
C13_Witness ==
    /\ SizingScenario
    /\ result.value.position_size_lots = Q(2, 10)

-----------------------------------------------------------------------------
(* The consensus scenario: default weights, three BUY at 0.6, one SELL.    *)

\* the timeframes of the request whose enhanced signal is SELL
Dissenters ==
    {tf \in DOMAIN request.analyses : request.analyses[tf].enhanced_signal = "SELL"}

\* four timeframes under the default weights and a minimum agreement of 3,
\* one of them SELL and the other three BUY with confidence 0.6
ThreeToOne ==
    /\ ConsensusDone
    /\ request.timeframe_weights = DefaultTimeframeWeights
    /\ request.min_timeframes_agree = 3
    /\ DOMAIN request.analyses = SeqToSet(ConfigTimeframes)
    /\ Cardinality(Dissenters) = 1
    /\ \A tf \in DOMAIN request.analyses \ Dissenters :
           /\ request.analyses[tf].enhanced_signal = "BUY"
           /\ request.analyses[tf].signal_confidence = Q(6, 10)

Dissenter == CHOOSE tf \in Dissenters : TRUE

\* 0.6 x (1 - the weight of the dissenting timeframe)
BuyTotalAgainst(tf) == QMul(Q(6, 10), QSub(QInt(1), DefaultTimeframeWeights[tf]))

\* the weight of the dissenting timeframe x its SELL confidence
SellTotalOf(tf) ==
    QMul(DefaultTimeframeWeights[tf], request.analyses[tf].signal_confidence)

\* C14 as stated: in the scenario the consensus is BUY with a weighted BUY
\* total of at least 0.54, whichever timeframe dissents and whatever its
\* confidence is.
C14_BuyWhoeverDissents ==
    ThreeToOne =>
        /\ result.value.consensus = "BUY"
        /\ QGe(result.value.confidence, Q(54, 100))

\* C14 as amended: the weighted BUY total is 0.6 x (1 - weight of the
\* dissenter), which is 0.54 when 15m dissents; the consensus is BUY with that
\* total when it exceeds the dissenter's weight x confidence, which it does for
\* every confidence when 15m, 1h or 4h dissents, and HOLD otherwise.
C14_BuyUnlessOutweighed ==
    ThreeToOne =>
        /\ IF QGt(BuyTotalAgainst(Dissenter), SellTotalOf(Dissenter))
           THEN /\ result.value.consensus = "BUY"
                /\ result.value.confidence = BuyTotalAgainst(Dissenter)
           ELSE /\ result.value.consensus = "HOLD"
                /\ result.value.confidence = Q(1, 2)
        /\ Dissenter \in {"15m", "1h", "4h"} => result.value.consensus = "BUY"
        /\ Dissenter = "15m" => result.value.confidence = Q(54, 100)
        /\ result.value.buy_timeframes = 3

\* the scenario of the specification: the 15m timeframe dissents with full
\* confidence, the BUY total is 0.54
C14_Witness ==
    /\ ThreeToOne
    /\ Dissenter = "15m"
    /\ request.analyses["15m"].signal_confidence = QInt(1)
    /\ result.value.consensus = "BUY"
    /\ result.value.confidence = Q(54, 100)

-----------------------------------------------------------------------------
(* The steady-rise scenario of calculate_trend_momentum.                   *)

\* the last 20 candles of the request's frame
Window20 == IlocLast(request.df, 20)

\* calculate_trend_momentum was called with lookback 20 on a frame whose last
\* 20 candles are all bullish, each closing above the previous close
SteadyRise ==
    /\ op.name = "calculate_trend_momentum"
    /\ request.historical_lookback = 20
    /\ Len(request.df) >= 20
    /\ \A i \in 1..20 : QGt(Window20[i].Close, Window20[i].Open)
    /\ \A i \in 2..20 : QGt(Window20[i].Close, Window20[i - 1].Close)

\* C15 as stated: on a steady rise of 20 candles calculate_trend_momentum with
\* lookback 20 returns BULLISH with a momentum_score above 0.8, whatever the
\* price change, the highs, the lows and the volumes are.
C15_SteadyRiseAbove80 ==
    SteadyRise =>
        /\ IsReturned
        /\ result.value.direction = "BULLISH"
        /\ QGt(result.value.momentum_score, Q(8, 10))

\* C15 as amended: it returns BULLISH with momentum_score =
\* min(1, 0.5 + 0.03 x price_change_pct + 0.2 x higher_highs / 19), which is
\* above 0.5, and above 0.8 only with a large enough rise or rising highs.
C15_SteadyRiseAbove50 ==
    SteadyRise =>
        /\ IsReturned
        /\ result.value.direction = "BULLISH"
        /\ result.value.bullish_candles = 20
        /\ QGt(result.value.price_change_pct, QZero)
        /\ result.value.momentum_score =
               QMin(QAdd(QAdd(Q(5, 10), QMul(Q(3, 100), result.value.price_change_pct)),
                         QMul(Q(2, 10), Q(result.value.higher_highs, 19))),
                    QInt(1))
        /\ QGt(result.value.momentum_score, Q(5, 10))

\* a steady rise of under 2% beneath falling highs: BULLISH, score below 0.6
C15_Witness ==
    /\ SteadyRise
    /\ IsReturned
    /\ result.value.direction = "BULLISH"
    /\ result.value.higher_highs = 0
    /\ QLt(result.value.price_change_pct, QInt(2))
    /\ QLt(result.value.momentum_score, Q(6, 10))

-----------------------------------------------------------------------------
(* The ledger.                                                             *)

ReadingOps ==
    {"validate_trade", "create_trade_plan", "create_multi_timeframe_trade_plans",
     "calculate_position_size"}

\* C19: the ledger is append-only: record_trade adds its trade at the end and
\* keeps every recorded trade in place, and validate_trade, create_trade_plan,
\* create_multi_timeframe_trade_plans and calculate_position_size leave the
\* ledger and the drawdown value as they are.
C19_LedgerAppendOnly ==
    [][/\ Len(trades') >= Len(trades)
       /\ SubSeq(trades', 1, Len(trades)) = trades
       /\ op'.name = "record_trade" => Len(trades') = Len(trades) + 1
       /\ op'.name \in ReadingOps =>
              (trades' = trades /\ current_drawdown' = current_drawdown)]_vars

\* two trades were recorded, in this order, and a plan was requested after them
C19_Witness ==
    /\ Len(trades) = 2
    /\ trades[1].pnl = -2000
    /\ trades[2].pnl = 500
    /\ op.name = "create_multi_timeframe_trade_plans"

\* C17: with no classifier prediction (signal HOLD, confidence 0.0) and the
\* weights analyze_pair passes, the final signal of vote is the technical
\* majority signal of the daily signal map.
C17_TechnicalOnly ==
    (/\ VoteDone
     /\ request.ml_prediction = [signal |-> "HOLD", confidence |-> QZero]
     /\ request.weights = [ml |-> Q(1, 2), technical |-> Q(1, 2)])
        => result.value.signal = TechnicalConsensus(request.technical_signals).signal

-----------------------------------------------------------------------------
(* SignalGenerator: the indicator signal rules                             *)

\* A dataframe handed to a signal rule: its column names and its rows, each
\* row a function from the column names to numbers (NaN where undefined).
HasColumn(df, column) == column \in df.columns

\* df[column].iloc[-k] of a frame that has the column and at least k rows
ILoc(df, column, k) == df.rows[Len(df.rows) - k + 1][column]

\* the crossover test and the position test of the two moving-average rules
CrossoverDecision(fast_prev, slow_prev, fast_current, slow_current, price_current) ==
    IF QLe(fast_prev, slow_prev) /\ QGt(fast_current, slow_current) THEN "BUY"
    ELSE IF QGe(fast_prev, slow_prev) /\ QLt(fast_current, slow_current) THEN "SELL"
    ELSE IF QGt(fast_current, slow_current) /\ QGt(price_current, fast_current) THEN "BUY"
    ELSE IF QLt(fast_current, slow_current) /\ QLt(price_current, fast_current) THEN "SELL"
    ELSE "HOLD"

ma_crossover_signal(df, fast_period, slow_period) ==
    LET fast_col == "MA_" \o ToString(fast_period)
        slow_col == "MA_" \o ToString(slow_period)
    IN IF Len(df.rows) < 2 THEN Returned("HOLD")
       ELSE IF ~HasColumn(df, fast_col) \/ ~HasColumn(df, slow_col) THEN Returned("HOLD")
       ELSE IF ~HasColumn(df, "Close") THEN Raised("KeyError")
       ELSE Returned(CrossoverDecision(ILoc(df, fast_col, 2), ILoc(df, slow_col, 2),
                                       ILoc(df, fast_col, 1), ILoc(df, slow_col, 1),
                                       ILoc(df, "Close", 1)))

ema_crossover_signal(df, fast_period, slow_period) ==
    LET fast_col == "EMA_" \o ToString(fast_period)
        slow_col == "EMA_" \o ToString(slow_period)
    IN IF Len(df.rows) < 2 THEN Returned("HOLD")
       ELSE IF ~HasColumn(df, fast_col) \/ ~HasColumn(df, slow_col) THEN Returned("HOLD")
       ELSE IF ~HasColumn(df, "Close") THEN Raised("KeyError")
       ELSE Returned(CrossoverDecision(ILoc(df, fast_col, 2), ILoc(df, slow_col, 2),
                                       ILoc(df, fast_col, 1), ILoc(df, slow_col, 1),
                                       ILoc(df, "Close", 1)))

rsi_signal(df, overbought, oversold) ==
    IF ~HasColumn(df, "RSI") \/ Len(df.rows) < 2 THEN Returned("HOLD")
    ELSE LET rsi_current == ILoc(df, "RSI", 1)
             rsi_prev == ILoc(df, "RSI", 2)
         IN Returned(
              IF QLt(rsi_prev, QInt(oversold)) /\ QGe(rsi_current, QInt(oversold)) THEN "BUY"
              ELSE IF QGt(rsi_prev, QInt(overbought)) /\ QLe(rsi_current, QInt(overbought))
                   THEN "SELL"
              ELSE IF QLt(rsi_current, QInt(oversold)) /\ QGt(rsi_current, rsi_prev) THEN "BUY"
              ELSE IF QGt(rsi_current, QInt(overbought)) /\ QLt(rsi_current, rsi_prev)
                   THEN "SELL"
              ELSE IF QLt(rsi_current, QInt(50)) /\ QGt(rsi_current, QAdd(rsi_prev, QInt(2)))
                   THEN "BUY"
              ELSE IF QGt(rsi_current, QInt(50)) /\ QLt(rsi_current, QSub(rsi_prev, QInt(2)))
                   THEN "SELL"
              ELSE "HOLD")

macd_signal(df) ==
    IF ~HasColumn(df, "MACD") \/ Len(df.rows) < 2 THEN Returned("HOLD")
    ELSE IF ~HasColumn(df, "MACD_Signal") \/ ~HasColumn(df, "MACD_Hist") THEN Raised("KeyError")
    ELSE LET macd_current == ILoc(df, "MACD", 1)
             macd_prev == ILoc(df, "MACD", 2)
             signal_current == ILoc(df, "MACD_Signal", 1)
             signal_prev == ILoc(df, "MACD_Signal", 2)
             hist_current == ILoc(df, "MACD_Hist", 1)
             hist_prev == ILoc(df, "MACD_Hist", 2)
         IN Returned(
              IF QLe(macd_prev, signal_prev) /\ QGt(macd_current, signal_current) THEN "BUY"
              ELSE IF QGe(macd_prev, signal_prev) /\ QLt(macd_current, signal_current)
                   THEN "SELL"
              ELSE IF QGt(macd_current, signal_current) /\ QGt(hist_current, hist_prev)
                   THEN "BUY"
              ELSE IF QLt(macd_current, signal_current) /\ QLt(hist_current, hist_prev)
                   THEN "SELL"
              ELSE "HOLD")

stochastic_signal(df, overbought, oversold) ==
    IF ~HasColumn(df, "Stoch_K") \/ Len(df.rows) < 2 THEN Returned("HOLD")
    ELSE IF ~HasColumn(df, "Stoch_D") THEN Raised("KeyError")
    ELSE LET k_current == ILoc(df, "Stoch_K", 1)
             d_current == ILoc(df, "Stoch_D", 1)
             k_prev == ILoc(df, "Stoch_K", 2)
             d_prev == ILoc(df, "Stoch_D", 2)
         IN Returned(
              IF /\ QLe(k_prev, d_prev) /\ QGt(k_current, d_current)
                 /\ QLt(k_current, QInt(oversold)) THEN "BUY"
              ELSE IF /\ QGe(k_prev, d_prev) /\ QLt(k_current, d_current)
                      /\ QGt(k_current, QInt(overbought)) THEN "SELL"
              ELSE IF QLt(k_current, QInt(oversold)) /\ QGt(k_current, d_current) THEN "BUY"
              ELSE IF QGt(k_current, QInt(overbought)) /\ QLt(k_current, d_current)
                   THEN "SELL"
              ELSE IF /\ QGt(k_current, d_current) /\ QGt(k_current, k_prev)
                      /\ QLt(k_current, QInt(50)) THEN "BUY"
              ELSE IF /\ QLt(k_current, d_current) /\ QLt(k_current, k_prev)
                      /\ QGt(k_current, QInt(50)) THEN "SELL"
              ELSE "HOLD")

-----------------------------------------------------------------------------
(* SupportResistance                                                       *)

\* the sequence s with every element evaluated, once
Values(s) == SubSeq(s, 1, Len(s))

\* df[column] as a sequence, one value per row
Column(df, column) == Values([i \in 1..Len(df.rows) |-> df.rows[i][column]])

\* sum(s) of s[a..b], by halves
RECURSIVE QSumRange(_, _, _)
QSumRange(s, a, b) ==
    IF a > b THEN QZero
    ELSE IF a = b THEN s[a]
    ELSE LET m == (a + b) \div 2 IN QAdd(QSumRange(s, a, m), QSumRange(s, m + 1, b))

\* np.mean of s[a..b], a <= b
MeanRange(s, a, b) == QDiv(QSumRange(s, a, b), QInt(b - a + 1))

\* np.mean of a non-empty list
Mean(s) == MeanRange(s, 1, Len(s))

\* the rows range(window, len(df) - window) visits, 1-based
PivotCandidates(df, window) ==
    [k \in 1..IntMax(Len(df.rows) - 2 * window, 0) |-> window + k]

\* (support_levels, resistance_levels): the lows equal to the lowest low and
\* the highs equal to the highest high of the window rows either side, that
\* is, with no lower low and no higher high among them; min() and max() of a
\* column pass over undefined values
find_pivot_points(df, window) ==
    LET low == Column(df, "Low")
        high == Column(df, "High")
        is_low(j) == /\ ~IsNaN(low[j])
                     /\ \A k \in (j - window)..(j + window) :
                            low[k] = low[j] \/ ~QLt(low[k], low[j])
        is_high(j) == /\ ~IsNaN(high[j])
                      /\ \A k \in (j - window)..(j + window) :
                             high[k] = high[j] \/ ~QGt(high[k], high[j])
        lows == SelectSeq(PivotCandidates(df, window), is_low)
        highs == SelectSeq(PivotCandidates(df, window), is_high)
    IN <<Values([k \in 1..Len(lows) |-> low[lows[k]]]),
         Values([k \in 1..Len(highs) |-> high[highs[k]]])>>

\* sorted(levels): the distinct values in increasing order, each as many
\* times as it occurs
Sorted(levels) ==
    LET values == SeqToSet(levels)
        distinct == Values([r \in 1..Cardinality(values) |->
                               CHOOSE v \in values :
                                   Cardinality({u \in values : QLt(u, v)}) = r - 1])
        before == Values([r \in 1..Len(distinct) |->
                             Cardinality({j \in 1..Len(levels) :
                                              \E q \in 1..(r - 1) : levels[j] = distinct[q]})])
        count == Values([r \in 1..Len(distinct) |->
                            Cardinality({j \in 1..Len(levels) : levels[j] = distinct[r]})])
    IN Values([k \in 1..Len(levels) |->
                  distinct[CHOOSE r \in 1..Len(distinct) :
                               before[r] < k /\ k <= before[r] + count[r]]])

Reversed(s) == Values([i \in 1..Len(s) |-> s[Len(s) - i + 1]])

\* before + xs[a], before + xs[a] + xs[a + 1], ..., up to xs[b], by halves
RECURSIVE RunningSums(_, _, _, _)
RunningSums(xs, a, b, before) ==
    IF a > b THEN <<>>
    ELSE IF a = b THEN <<QAdd(before, xs[a])>>
    ELSE LET m == (a + b) \div 2
             left == RunningSums(xs, a, m, before)
         IN left \o RunningSums(xs, m + 1, b, left[Len(left)])

\* the loop of cluster_levels from the level that starts a cluster: the
\* cluster runs up to the first level farther than tolerance from the mean
\* of the levels before it; sums[k] is the sum of the first k levels
RECURSIVE ClustersFrom(_, _, _, _)
ClustersFrom(sorted_levels, sums, start, tolerance) ==
    IF start > Len(sorted_levels) THEN <<>>
    ELSE LET mean(k) == QDiv(QSub(sums[k], IF start = 1 THEN QZero ELSE sums[start - 1]),
                             QInt(k - start + 1))
             fits == Values([k \in 1..Len(sorted_levels) |->
                                k > start =>
                                    QLe(QDiv(QAbs(QSub(sorted_levels[k], mean(k - 1))),
                                             mean(k - 1)),
                                        tolerance)])
             misfits == {k \in (start + 1)..Len(sorted_levels) : ~fits[k]}
             stop == IF misfits = {} THEN Len(sorted_levels) + 1
                     ELSE CHOOSE k \in misfits : \A j \in misfits : k <= j
         IN <<mean(stop - 1)>> \o ClustersFrom(sorted_levels, sums, stop, tolerance)

cluster_levels(levels, tolerance) ==
    IF levels = <<>> THEN <<>>
    ELSE LET sorted_levels == Sorted(levels)
         IN ClustersFrom(sorted_levels,
                         RunningSums(sorted_levels, 1, Len(sorted_levels), QZero),
                         1, tolerance)

\* s[:k]
Prefix(s, k) == SubSeq(s, 1, IF k < Len(s) THEN k ELSE Len(s))

\* get_key_levels once the pivot points are found
KeyLevels(df, num_levels, pivots, tolerance) ==
    IF Len(df.rows) = 0 THEN Raised("IndexError")
    ELSE LET current_price == ILoc(df, "Close", 1)
             below(s) == QLt(s, current_price)
             above(r) == QGt(r, current_price)
         IN Returned(
              [support |->
                   Prefix(Reversed(Sorted(SelectSeq(cluster_levels(pivots[1], tolerance),
                                                    below))),
                          num_levels),
               resistance |->
                   Prefix(Sorted(SelectSeq(cluster_levels(pivots[2], tolerance), above)),
                          num_levels)])

\* SupportResistance.get_key_levels
get_key_levels(df, num_levels, window, tolerance) ==
    KeyLevels(df, num_levels, find_pivot_points(df, window), tolerance)

\* whether price is within tolerance of one of the levels, relative to the level
NearLevel(current_price, levels, tolerance) ==
    \E i \in 1..Len(levels) :
        QLe(QDiv(QAbs(QSub(current_price, levels[i])), levels[i]), tolerance)

SrDecision(current_price, levels, tolerance) ==
    IF NearLevel(current_price, levels.support, tolerance) THEN "BUY"
    ELSE IF NearLevel(current_price, levels.resistance, tolerance) THEN "SELL"
    ELSE "HOLD"

PivotWindow == 5

NumLevels == 3

ClusterTolerance == Q(1, 1000)

ProximityTolerance == Q(2, 1000)

\* get_sr_signal once the key levels are worked out
SrSignal(df, levels, tolerance) ==
    IF levels.outcome = "raised" THEN levels
    ELSE Returned(SrDecision(ILoc(df, "Close", 1), levels.value, tolerance))

\* SupportResistance.get_sr_signal
get_sr_signal(df, tolerance) ==
    SrSignal(df, get_key_levels(df, NumLevels, PivotWindow, ClusterTolerance), tolerance)

-----------------------------------------------------------------------------
(* Signal rules: the frames enumerated and the state machine               *)

\* the rows of df restricted to the columns kept, last n rows only
FrameOf(cols, rows, n) ==
    LET kept == SubSeq(rows, Len(rows) - n + 1, Len(rows))
    IN [columns |-> cols, rows |-> [i \in 1..n |-> [c \in cols |-> kept[i][c]]]]

\* every frame of 0, 1 or 2 rows made of the rows with some columns dropped
Degenerate(rows, colsets) == {FrameOf(cols, rows, n) : cols \in colsets, n \in 0..2}

PriceMidpoint == QInt(100)

AverageValues == {QInt(99), QInt(101), NaN}

ClosingPrices == {QInt(98), QInt(100), QInt(102)}

CrossRow(fast_col, slow_col, fast, slow, price) ==
    (fast_col :> fast) @@ (slow_col :> slow) @@ ("Close" :> price)

\* two-row frames of a fast and a slow average, and frames with a column or
\* a row missing
CrossFrames(fast_col, slow_col) ==
    {FrameOf({fast_col, slow_col, "Close"},
             <<CrossRow(fast_col, slow_col, fp, sp, PriceMidpoint),
               CrossRow(fast_col, slow_col, fc, sc, pc)>>, 2) :
         fp \in AverageValues, sp \in AverageValues, fc \in AverageValues,
         sc \in AverageValues, pc \in ClosingPrices}
    \cup Degenerate(<<CrossRow(fast_col, slow_col, QInt(99), QInt(101), QInt(100)),
                      CrossRow(fast_col, slow_col, QInt(101), QInt(99), QInt(102))>>,
                    {{"Close"}, {"Close", fast_col}, {"Close", slow_col},
                     {"Close", fast_col, slow_col}})

RsiValues ==
    {QInt(25), QInt(28), QInt(30), QInt(45), QInt(49), QInt(50), QInt(51), QInt(55),
     QInt(70), QInt(72), QInt(75), NaN}

RsiRow(rsi) == [Close |-> PriceMidpoint, RSI |-> rsi]

RsiFrames ==
    {FrameOf({"Close", "RSI"}, <<RsiRow(p), RsiRow(c)>>, 2) : p \in RsiValues, c \in RsiValues}
    \cup Degenerate(<<RsiRow(QInt(28)), RsiRow(QInt(45))>>, {{"Close"}, {"Close", "RSI"}})

\* the thresholds of the configuration and a narrower pair
RsiThresholds == {[overbought |-> 70, oversold |-> 30], [overbought |-> 75, oversold |-> 25]}

MacdValues == {QInt(-1), QZero, QInt(1), NaN}

\* add_macd sets MACD_Hist to MACD - MACD_Signal
MacdRow(macd, signal) ==
    [Close |-> PriceMidpoint, MACD |-> macd, MACD_Signal |-> signal,
     MACD_Hist |-> QSub(macd, signal)]

MacdFrames ==
    {FrameOf({"Close", "MACD", "MACD_Signal", "MACD_Hist"},
             <<MacdRow(mp, sp), MacdRow(mc, sc)>>, 2) :
         mp \in MacdValues, sp \in MacdValues, mc \in MacdValues, sc \in MacdValues}
    \cup Degenerate(<<MacdRow(QInt(-1), QZero), MacdRow(QInt(1), QZero)>>,
                    {{"Close"}, {"Close", "MACD"}, {"Close", "MACD", "MACD_Signal"},
                     {"Close", "MACD", "MACD_Signal", "MACD_Hist"}})

StochKValues == {QInt(10), QInt(15), QInt(45), QInt(55), QInt(85), QInt(90), NaN}

StochDValues == {QInt(12), QInt(50), QInt(88), NaN}

StochRow(k, d) == [Close |-> PriceMidpoint, Stoch_K |-> k, Stoch_D |-> d]

StochFrames ==
    {FrameOf({"Close", "Stoch_K", "Stoch_D"}, <<StochRow(kp, dp), StochRow(kc, dc)>>, 2) :
         kp \in StochKValues, dp \in StochDValues, kc \in StochKValues, dc \in StochDValues}
    \cup Degenerate(<<StochRow(QInt(10), QInt(12)), StochRow(QInt(15), QInt(12))>>,
                    {{"Close"}, {"Close", "Stoch_K"}, {"Close", "Stoch_K", "Stoch_D"}})

\* prices in halves around a close of 1000
Half(k) == Q(k, 2)

OhlcColumns == {"Open", "High", "Low", "Close", "Volume"}

Ohlc(high2, low2) ==
    [Open |-> QInt(1000), High |-> Half(high2), Low |-> Half(low2), Close |-> QInt(1000),
     Volume |-> QInt(1000)]

PivotHighValues == {2002, 2004, 2020}

PivotLowValues == {1998, 1996, 1980}

\* the longest frame of identical candles enumerated
MaxUniform == 12

\* n identical candles
UniformFrames ==
    {[columns |-> OhlcColumns, rows |-> [i \in 1..n |-> Ohlc(h, l)]] :
         n \in {0, 1, 2, 10, 11} \cup {MaxUniform}, h \in PivotHighValues, l \in PivotLowValues}

\* 17 candles between 999.5 and 1000.5 but for the 6th and the 12th, whose
\* highs and lows are the only pivots
TwoPivotFrames ==
    {[columns |-> OhlcColumns,
      rows |-> [i \in 1..17 |-> IF i = 6 THEN Ohlc(a, la)
                                ELSE IF i = 12 THEN Ohlc(b, lb)
                                ELSE Ohlc(2001, 1999)]] :
         a \in {2002, 2003, 2020}, b \in {2002, 2003, 2020},
         la \in {1998, 1997, 1980}, lb \in {1998, 1997, 1980}}

SignalRequests ==
    [rule : {"ma_cross"}, df : CrossFrames("MA_20", "MA_50")]
        \cup [rule : {"ema_cross"}, df : CrossFrames("EMA_12", "EMA_26")]
        \cup {[rule |-> "rsi", df |-> f, overbought |-> t.overbought, oversold |-> t.oversold] :
                  f \in RsiFrames, t \in RsiThresholds}
        \cup [rule : {"macd"}, df : MacdFrames]
        \cup [rule : {"stochastic"}, df : StochFrames]
        \cup [rule : {"support_resistance"}, df : UniformFrames \cup TwoPivotFrames]

\* what the rule a request names returns for the request's frame
RuleResult(req) ==
    CASE req.rule = "ma_cross" -> ma_crossover_signal(req.df, 20, 50)
      [] req.rule = "ema_cross" -> ema_crossover_signal(req.df, 12, 26)
      [] req.rule = "rsi" -> rsi_signal(req.df, req.overbought, req.oversold)
      [] req.rule = "macd" -> macd_signal(req.df)
      [] req.rule = "stochastic" -> stochastic_signal(req.df, 80, 20)
      [] req.rule = "support_resistance" -> get_sr_signal(req.df, ProximityTolerance)

InitSignals ==
    /\ trades = <<>>
    /\ current_drawdown = QZero
    /\ request \in SignalRequests
    /\ op = Idle
    /\ result = NoResult

MaCrossoverSignal ==
    /\ request.rule = "ma_cross"
    /\ op' = [name |-> "ma_crossover_signal"]
    /\ result' = ma_crossover_signal(request.df, 20, 50)
    /\ UNCHANGED <<trades, current_drawdown, request>>

EmaCrossoverSignal ==
    /\ request.rule = "ema_cross"
    /\ op' = [name |-> "ema_crossover_signal"]
    /\ result' = ema_crossover_signal(request.df, 12, 26)
    /\ UNCHANGED <<trades, current_drawdown, request>>

RsiSignal ==
    /\ request.rule = "rsi"
    /\ op' = [name |-> "rsi_signal"]
    /\ result' = rsi_signal(request.df, request.overbought, request.oversold)
    /\ UNCHANGED <<trades, current_drawdown, request>>

MacdSignal ==
    /\ request.rule = "macd"
    /\ op' = [name |-> "macd_signal"]
    /\ result' = macd_signal(request.df)
    /\ UNCHANGED <<trades, current_drawdown, request>>

StochasticSignal ==
    /\ request.rule = "stochastic"
    /\ op' = [name |-> "stochastic_signal"]
    /\ result' = stochastic_signal(request.df, 80, 20)
    /\ UNCHANGED <<trades, current_drawdown, request>>

GetSrSignal ==
    /\ request.rule = "support_resistance"
    /\ op' = [name |-> "get_sr_signal"]
    /\ result' = get_sr_signal(request.df, ProximityTolerance)
    /\ UNCHANGED <<trades, current_drawdown, request>>

NextSignals ==
    \/ MaCrossoverSignal
    \/ EmaCrossoverSignal
    \/ RsiSignal
    \/ MacdSignal
    \/ StochasticSignal
    \/ GetSrSignal

SpecSignals == InitSignals /\ [][NextSignals]_vars

SignalOps ==
    {"ma_crossover_signal", "ema_crossover_signal", "rsi_signal", "macd_signal",
     "stochastic_signal", "get_sr_signal"}

SignalDone == op # Idle /\ op.name \in SignalOps

\* the columns a rule reads
ReadColumns(req) ==
    CASE req.rule = "ma_cross" -> {"MA_20", "MA_50", "Close"}
      [] req.rule = "ema_cross" -> {"EMA_12", "EMA_26", "Close"}
      [] req.rule = "rsi" -> {"RSI"}
      [] req.rule = "macd" -> {"MACD", "MACD_Signal", "MACD_Hist"}
      [] req.rule = "stochastic" -> {"Stoch_K", "Stoch_D"}
      [] req.rule = "support_resistance" -> {"High", "Low", "Close"}

\* the frame has fewer than two rows, or lacks a column the rule reads, or
\* holds NaN in one of the rule's columns in its last two rows
IndicatorUndefined(req) ==
    \/ Len(req.df.rows) < 2
    \/ \E c \in ReadColumns(req) : c \notin req.df.columns
    \/ \E c \in ReadColumns(req), k \in 1..2 : IsNaN(ILoc(req.df, c, k))

\* C16: every signal rule returns one of BUY, SELL and HOLD without raising,
\* and returns HOLD when the frame has fewer than two rows or a column or
\* value the rule reads is absent or undefined.
C16_HoldWhenUndefined ==
    SignalDone =>
        /\ result.outcome = "returned"
        /\ result.value \in Signals
        /\ IndicatorUndefined(request) => result.value = "HOLD"

MirrorSignal(signal) ==
    IF signal = "BUY" THEN "SELL" ELSE IF signal = "SELL" THEN "BUY" ELSE signal

\* x reflected about the midpoint
Reflect(x, midpoint) == QSub(QMul(QInt(2), midpoint), x)

\* every column of every row reflected about the midpoint
ReflectFrame(df, midpoint) ==
    [columns |-> df.columns,
     rows |-> [i \in 1..Len(df.rows) |->
                   [c \in df.columns |-> Reflect(df.rows[i][c], midpoint)]]]

\* candles reflected about the last close: highs become lows, supports
\* become resistances
ReflectCandles(df) ==
    LET midpoint == ILoc(df, "Close", 1)
    IN [columns |-> df.columns,
        rows |-> [i \in 1..Len(df.rows) |->
                      [Open |-> Reflect(df.rows[i]["Open"], midpoint),
                       High |-> Reflect(df.rows[i]["Low"], midpoint),
                       Low |-> Reflect(df.rows[i]["High"], midpoint),
                       Close |-> Reflect(df.rows[i]["Close"], midpoint),
                       Volume |-> df.rows[i]["Volume"]]]]

\* the mirrored input of a rule
Mirrored(req) ==
    CASE req.rule \in {"ma_cross", "ema_cross"} ->
             [req EXCEPT !.df = ReflectFrame(req.df, PriceMidpoint)]
      [] req.rule = "rsi" ->
             [req EXCEPT !.df = ReflectFrame(req.df, QInt(50)),
                         !.overbought = 100 - req.oversold,
                         !.oversold = 100 - req.overbought]
      [] req.rule = "macd" -> [req EXCEPT !.df = ReflectFrame(req.df, QZero)]
      [] req.rule = "stochastic" -> [req EXCEPT !.df = ReflectFrame(req.df, QInt(50))]
      [] req.rule = "support_resistance" ->
             IF Len(req.df.rows) = 0 THEN req ELSE [req EXCEPT !.df = ReflectCandles(req.df)]

\* C18: every signal rule is symmetric: on the mirrored input a rule that
\* returned BUY returns SELL, one that returned SELL returns BUY and one that
\* returned HOLD returns HOLD.
C18_MirrorSymmetry ==
    (SignalDone /\ result.outcome = "returned") =>
        RuleResult(Mirrored(request)) = Returned(MirrorSignal(result.value))

-----------------------------------------------------------------------------
(* TechnicalIndicators: the columns add_all_indicators attaches            *)

\* df[name] = series[name] for every name of series, on the frame itself
SetColumns(df, series) ==
    LET cols == df.columns \cup DOMAIN series
        assigned == series @@ <<>>
    IN [columns |-> cols,
        rows |-> Values([i \in 1..Len(df.rows) |->
                             [c \in cols |-> IF c \in DOMAIN assigned THEN assigned[c][i]
                                             ELSE df.rows[i][c]]])]

\* a scalar assigned to a column
Broadcast(df, value) == Values([i \in 1..Len(df.rows) |-> value])

\* series.rolling(window).mean(): undefined until the window is full
RollingMean(xs, window) ==
    LET sums == RunningSums(Values([i \in 1..Len(xs) |->
                                       IF IsNaN(xs[i]) THEN QZero ELSE xs[i]]),
                            1, Len(xs), QZero)
        total(i) == QSub(sums[i], IF i = window THEN QZero ELSE sums[i - window])
    IN Values([i \in 1..Len(xs) |->
                  IF i < window \/ \E j \in (i - window + 1)..i : IsNaN(xs[j]) THEN NaN
                  ELSE QDiv(total(i), QInt(window))])

\* series.rolling(window).min(): undefined until the window is full and
\* while it holds an undefined value, else the value no other is below
RollingMin(xs, window) ==
    Values([i \in 1..Len(xs) |->
               IF i < window \/ \E j \in (i - window + 1)..i : IsNaN(xs[j]) THEN NaN
               ELSE xs[CHOOSE k \in (i - window + 1)..i :
                           \A j \in (i - window + 1)..i : xs[j] = xs[k] \/ QLt(xs[k], xs[j])]])

\* series.rolling(window).max()
RollingMax(xs, window) ==
    Values([i \in 1..Len(xs) |->
               IF i < window \/ \E j \in (i - window + 1)..i : IsNaN(xs[j]) THEN NaN
               ELSE xs[CHOOSE k \in (i - window + 1)..i :
                           \A j \in (i - window + 1)..i : xs[j] = xs[k] \/ QGt(xs[k], xs[j])]])

\* the non-negative rational whose square is a, for a the square of one
ISqrt(k) == CHOOSE r \in 0..k : r * r = k

QSqrt(a) == IF IsNaN(a) THEN NaN ELSE Q(ISqrt(a.n), ISqrt(a.d))

\* series.rolling(window).std(), the sample standard deviation
RollingStd(xs, window) ==
    LET sums == RunningSums(xs, 1, Len(xs), QZero)
        squares == RunningSums(Values([i \in 1..Len(xs) |-> QMul(xs[i], xs[i])]),
                               1, Len(xs), QZero)
        total(of, i) == QSub(of[i], IF i = window THEN QZero ELSE of[i - window])
    IN Values([i \in 1..Len(xs) |->
                  IF i < window THEN NaN
                  ELSE QSqrt(QDiv(QSub(total(squares, i),
                                       QDiv(QMul(total(sums, i), total(sums, i)),
                                            QInt(window))),
                                  QInt(window - 1)))])

\* series.ewm(span, adjust=False).mean() for the rows a..b, by halves, given
\* the average of row a - 1
RECURSIVE EwmRange(_, _, _, _, _)
EwmRange(xs, alpha, a, b, before) ==
    IF a = b THEN <<QAdd(QMul(alpha, xs[a]), QMul(QSub(QInt(1), alpha), before))>>
    ELSE LET m == (a + b) \div 2
             left == EwmRange(xs, alpha, a, m, before)
         IN left \o EwmRange(xs, alpha, m + 1, b, left[Len(left)])

Ewm(xs, span) ==
    IF Len(xs) < 2 THEN xs
    ELSE <<xs[1]>> \o EwmRange(xs, Q(2, span + 1), 2, Len(xs), xs[1])

add_moving_averages(df, periods) ==
    SetColumns(df, [name \in {"MA_" \o ToString(periods[k]) : k \in 1..Len(periods)} |->
                       LET period == CHOOSE p \in SeqToSet(periods) : "MA_" \o ToString(p) = name
                       IN RollingMean(Column(df, "Close"), period)])

add_exponential_moving_averages(df, periods) ==
    SetColumns(df, [name \in {"EMA_" \o ToString(periods[k]) : k \in 1..Len(periods)} |->
                       LET period == CHOOSE p \in SeqToSet(periods) : "EMA_" \o ToString(p) = name
                       IN Ewm(Column(df, "Close"), period)])

\* 100 - 100 / (1 + gain / loss); a zero loss with a positive gain divides
\* to infinity and gives 100, a zero loss with a zero gain gives NaN
add_rsi(df, period) ==
    LET close == Column(df, "Close")
        delta == Values([i \in 1..Len(close) |->
                            IF i = 1 THEN NaN ELSE QSub(close[i], close[i - 1])])
        gains == Values([i \in 1..Len(close) |->
                            IF QGt(delta[i], QZero) THEN delta[i] ELSE QZero])
        losses == Values([i \in 1..Len(close) |->
                             IF QLt(delta[i], QZero) THEN QNeg(delta[i]) ELSE QZero])
        gain == RollingMean(gains, period)
        loss == RollingMean(losses, period)
        rsi(i) == IF IsNaN(gain[i]) \/ IsNaN(loss[i]) THEN NaN
                  ELSE IF loss[i] = QZero
                       THEN (IF gain[i] = QZero THEN NaN ELSE QInt(100))
                  ELSE QSub(QInt(100),
                            QDiv(QInt(100), QAdd(QInt(1), QDiv(gain[i], loss[i]))))
    IN SetColumns(df, [name \in {"RSI"} |-> Values([i \in 1..Len(close) |-> rsi(i)])])

add_macd(df, fast, slow, signal) ==
    LET close == Column(df, "Close")
        ema_fast == Ewm(close, fast)
        ema_slow == Ewm(close, slow)
        macd == Values([i \in 1..Len(close) |-> QSub(ema_fast[i], ema_slow[i])])
        signal_line == Ewm(macd, signal)
    IN SetColumns(df, [MACD |-> macd, MACD_Signal |-> signal_line,
                       MACD_Hist |->
                           Values([i \in 1..Len(close) |-> QSub(macd[i], signal_line[i])])])

\* 100 * (close - low_min) / (high_max - low_min); a flat window divides
\* zero by zero
add_stochastic(df, k_period, d_period) ==
    LET low_min == RollingMin(Column(df, "Low"), k_period)
        high_max == RollingMax(Column(df, "High"), k_period)
        close == Column(df, "Close")
        stoch_k == Values([i \in 1..Len(close) |->
                              QDiv(QMul(QInt(100), QSub(close[i], low_min[i])),
                                   QSub(high_max[i], low_min[i]))])
    IN SetColumns(df, [Stoch_K |-> stoch_k, Stoch_D |-> RollingMean(stoch_k, d_period)])

add_atr(df, period) ==
    LET high == Column(df, "High")
        low == Column(df, "Low")
        close == Column(df, "Close")
        true_range ==
            Values([i \in 1..Len(close) |->
                       IF i = 1 THEN QSub(high[i], low[i])
                       ELSE QMax(QSub(high[i], low[i]),
                                 QMax(QAbs(QSub(high[i], close[i - 1])),
                                      QAbs(QSub(low[i], close[i - 1]))))])
    IN SetColumns(df, [name \in {"ATR"} |-> RollingMean(true_range, period)])

add_bollinger_bands(df, period, std_dev) ==
    LET close == Column(df, "Close")
        middle == RollingMean(close, period)
        std == RollingStd(close, period)
        upper == Values([i \in 1..Len(close) |->
                            QAdd(middle[i], QMul(std[i], QInt(std_dev)))])
        lower == Values([i \in 1..Len(close) |->
                            QSub(middle[i], QMul(std[i], QInt(std_dev)))])
    IN SetColumns(df, [BB_Middle |-> middle, BB_Upper |-> upper, BB_Lower |-> lower,
                       BB_Width |->
                           Values([i \in 1..Len(close) |-> QSub(upper[i], lower[i])])])

\* the on-balance volume of the rows a..b, by halves, given that of row a - 1
RECURSIVE ObvRange(_, _, _, _, _)
ObvRange(close, volume, a, b, before) ==
    IF a = b
    THEN <<IF QGt(close[a], close[a - 1]) THEN QAdd(before, volume[a])
           ELSE IF QLt(close[a], close[a - 1]) THEN QSub(before, volume[a])
           ELSE before>>
    ELSE LET m == (a + b) \div 2
             left == ObvRange(close, volume, a, m, before)
         IN left \o ObvRange(close, volume, m + 1, b, left[Len(left)])

\* obv = [0], then one value appended per further row
Obv(close, volume) ==
    IF Len(close) < 2 THEN [i \in 1..Len(close) |-> QZero]
    ELSE <<QZero>> \o ObvRange(close, volume, 2, Len(close), QZero)

add_volume_indicators(df) ==
    LET volume == Column(df, "Volume")
    IN SetColumns(df, [Volume_MA |-> RollingMean(volume, 20),
                       OBV |-> Obv(Column(df, "Close"), volume)])

\* config['indicators'] of the default configuration
IndicatorConfig ==
    [ma_periods |-> <<20, 50, 200>>, ema_periods |-> <<12, 26, 50>>, rsi_period |-> 14,
     rsi_overbought |-> 70, rsi_oversold |-> 30, macd_fast |-> 12, macd_slow |-> 26,
     macd_signal |-> 9, stochastic_k |-> 14, stochastic_d |-> 3, atr_period |-> 14,
     bollinger_period |-> 20, bollinger_std |-> 2]

\* TechnicalIndicators.add_all_indicators: every column is assigned on the
\* frame passed in, and that frame is returned
add_all_indicators(df, config) ==
    add_volume_indicators(
      add_bollinger_bands(
        add_atr(
          add_stochastic(
            add_macd(
              add_rsi(
                add_exponential_moving_averages(
                  add_moving_averages(df, config.ma_periods),
                  config.ema_periods),
                config.rsi_period),
              config.macd_fast, config.macd_slow, config.macd_signal),
            config.stochastic_k, config.stochastic_d),
          config.atr_period),
        config.bollinger_period, config.bollinger_std))

\* the four columns add_sr_indicators assigns, from the key levels
NearestLevels(df, levels, current_price) ==
    LET nearest_support ==
            IF levels.support # <<>> THEN levels.support[1] ELSE NaN
        nearest_resistance ==
            IF levels.resistance # <<>> THEN levels.resistance[1] ELSE NaN
    IN SetColumns(df,
         [Nearest_Support |-> Broadcast(df, nearest_support),
          Support_Distance |->
              Broadcast(df, QDiv(QSub(current_price, nearest_support), current_price)),
          Nearest_Resistance |-> Broadcast(df, nearest_resistance),
          Resistance_Distance |->
              Broadcast(df, QDiv(QSub(nearest_resistance, current_price),
                                 current_price))])

\* SupportResistance.add_sr_indicators of a frame with at least one row
add_sr_indicators(df) ==
    NearestLevels(df, get_key_levels(df, NumLevels, PivotWindow, ClusterTolerance).value,
                  ILoc(df, "Close", 1))

\* SignalGenerator.generate_all_signals; an exception of a rule leaves it
generate_all_signals(df, config) ==
    LET signals ==
            [ma_cross |-> ma_crossover_signal(df, 20, 50),
             ema_cross |-> ema_crossover_signal(df, 12, 26),
             rsi |-> rsi_signal(df, config.rsi_overbought, config.rsi_oversold),
             macd |-> macd_signal(df),
             stochastic |-> stochastic_signal(df, 80, 20)]
    IN IF \E k \in DOMAIN signals : signals[k].outcome = "raised"
       THEN Raised("KeyError")
       ELSE Returned([k \in DOMAIN signals |-> signals[k].value])

-----------------------------------------------------------------------------
(* MultiTimeframeAnalyzer.analyze_timeframe                                *)

\* np.mean(scores) if scores else 0.5
_calculate_trend_strength(df) ==
    LET ma20 == ILoc(df, "MA_20", 1)
        ma50 == ILoc(df, "MA_50", 1)
        ma200 == ILoc(df, "MA_200", 1)
        alignment ==
            IF {"MA_20", "MA_50", "MA_200"} \subseteq df.columns
            THEN IF (QGt(ma20, ma50) /\ QGt(ma50, ma200)) \/ (QLt(ma20, ma50) /\ QLt(ma50, ma200))
                 THEN <<QInt(1)>> ELSE <<Q(3, 10)>>
            ELSE <<>>
        price_change ==
            QDiv(QSub(ILoc(df, "Close", 1), ILoc(df, "Close", 20)), ILoc(df, "Close", 20))
        momentum ==
            IF Len(df.rows) >= 20
            THEN <<QMin(QMul(QAbs(price_change), QInt(10)), QInt(1))>> ELSE <<>>
        scores == alignment \o momentum
    IN IF scores # <<>> THEN Mean(scores) ELSE Q(1, 2)

_calculate_momentum(df) ==
    LET rsi == ILoc(df, "RSI", 1)
        macd_above == QGt(ILoc(df, "MACD", 1), ILoc(df, "MACD_Signal", 1))
        price_above == QGt(ILoc(df, "Close", 1), ILoc(df, "MA_50", 1))
        bullish_count ==
            (IF HasColumn(df, "RSI") /\ QGt(rsi, QInt(50)) THEN 1 ELSE 0)
            + (IF {"MACD", "MACD_Signal"} \subseteq df.columns /\ macd_above THEN 1 ELSE 0)
            + (IF HasColumn(df, "MA_50") /\ price_above THEN 1 ELSE 0)
        bearish_count ==
            (IF HasColumn(df, "RSI") /\ QLt(rsi, QInt(50)) THEN 1 ELSE 0)
            + (IF {"MACD", "MACD_Signal"} \subseteq df.columns /\ ~macd_above THEN 1 ELSE 0)
            + (IF HasColumn(df, "MA_50") /\ ~price_above THEN 1 ELSE 0)
    IN IF bullish_count > bearish_count THEN "BULLISH"
       ELSE IF bearish_count > bullish_count THEN "BEARISH"
       ELSE "NEUTRAL"

\* the dictionary get_enhanced_analysis returns
EnhancedAnalysis(current_signal, momentum, reversal, weighted) ==
    [original_signal |-> current_signal,
     final_signal |-> weighted[1],
     confidence |-> weighted[2],
     reasoning |-> weighted[3],
     momentum |-> momentum,
     reversal |-> reversal,
     signal_changed |-> current_signal # weighted[1]]

\* get_enhanced_analysis once the momentum and the reversal are worked out
WeighedAnalysis(current_signal, momentum, reversal) ==
    IF momentum.outcome = "raised" THEN momentum
    ELSE IF reversal.outcome = "raised" THEN reversal
    ELSE Returned(EnhancedAnalysis(current_signal, momentum.value, reversal.value,
                                   calculate_weighted_signal(
                                       current_signal, momentum.value, reversal.value,
                                       DefaultSignalWeights.current,
                                       DefaultSignalWeights.momentum,
                                       DefaultSignalWeights.reversal)))

\* TrendMomentumAnalyzer.get_enhanced_analysis
get_enhanced_analysis(df, current_signal) ==
    WeighedAnalysis(current_signal, calculate_trend_momentum(df.rows, 20),
                    detect_reversal(df.rows, 5, 20))

\* the fewest candles analyze_timeframe accepts
MinCandles == 50

\* a test that turns away the missing frame only
InsufficientDataNoneOnly(df) == df = PyNone \/ Len(df.rows) < 0

\* df is None or len(df) < 50
InsufficientData(df) == df = PyNone \/ Len(df.rows) < MinCandles

\* the consensus analyze_timeframe draws from the signals of one frame
CurrentConsensus(signals) ==
    LET tf_buy == CountSignals(signals, "BUY")
        tf_sell == CountSignals(signals, "SELL")
    IN IF tf_buy > tf_sell THEN "BUY" ELSE IF tf_sell > tf_buy THEN "SELL" ELSE "HOLD"

\* the dictionary analyze_timeframe returns, or None after an exception.  The
\* entries 'dataframe' and 'enhanced_recommendation' are left out.
TimeframeAnalysis(df, timeframe, signals, current_consensus, trend_momentum, reversal_detection, enhanced_signal_analysis, sr_levels) ==
    IF \/ trend_momentum.outcome = "raised"
       \/ reversal_detection.outcome = "raised"
       \/ enhanced_signal_analysis.outcome = "raised"
    THEN PyNone
    ELSE [timeframe |-> timeframe,
          signals |-> signals,
          current_consensus |-> current_consensus,
          enhanced_signal |-> enhanced_signal_analysis.value.final_signal,
          signal_confidence |-> enhanced_signal_analysis.value.confidence,
          signal_reasoning |-> enhanced_signal_analysis.value.reasoning,
          trend_strength |-> _calculate_trend_strength(df),
          momentum |-> _calculate_momentum(df),
          trend_momentum |-> trend_momentum.value,
          reversal_detection |-> reversal_detection.value,
          current_data |-> [price |-> ILoc(df, "Close", 1),
                            rsi |-> ILoc(df, "RSI", 1),
                            macd |-> ILoc(df, "MACD", 1),
                            atr |-> ILoc(df, "ATR", 1),
                            volume |-> ILoc(df, "Volume", 1)],
          support_levels |-> sr_levels.value.support,
          resistance_levels |-> sr_levels.value.resistance,
          signal_changed |-> enhanced_signal_analysis.value.signal_changed]

\* analyze_timeframe from the signals of the frame on
AnalyzeSignals(df, timeframe, signals, current_consensus) ==
    TimeframeAnalysis(df, timeframe, signals, current_consensus,
                      calculate_trend_momentum(df.rows, 20),
                      detect_reversal(df.rows, 5, 20),
                      get_enhanced_analysis(df, current_consensus),
                      get_key_levels(df, NumLevels, PivotWindow, ClusterTolerance))

\* the signals dictionary of analyze_timeframe: the indicators' signals and
\* the support/resistance signal
CollectSignals(df, timeframe, indicator_signals, sr_signal) ==
    IF indicator_signals.outcome = "raised" \/ sr_signal.outcome = "raised"
    THEN PyNone
    ELSE AnalyzeSignals(df, timeframe,
                        indicator_signals.value
                            @@ ("support_resistance" :> sr_signal.value),
                        CurrentConsensus(indicator_signals.value
                            @@ ("support_resistance" :> sr_signal.value)))

\* analyze_timeframe on the frame with its indicator columns: the frame as the
\* call leaves it, and the analysis
AnalyzeIndicators(df, timeframe) ==
    [df |-> df,
     analysis |-> CollectSignals(df, timeframe,
                                 generate_all_signals(df, IndicatorConfig),
                                 get_sr_signal(df, ProximityTolerance))]

\* the body of the try block of analyze_timeframe
AnalyzeFrame(df, timeframe) ==
    AnalyzeIndicators(add_sr_indicators(add_all_indicators(df, IndicatorConfig)),
                      timeframe)

\* MultiTimeframeAnalyzer.analyze_timeframe: the analysis returned (None for
\* insufficient data) and the caller's frame after the call
analyze_timeframe(df, timeframe) ==
    IF InsufficientData(df) THEN [df |-> df, analysis |-> PyNone]
    ELSE AnalyzeFrame(df, timeframe)

\* the timeframes analyze_multiple_timeframes puts into its result
KeptTimeframes(analyses) == {tf \in DOMAIN analyses : analyses[tf] # PyNone}

\* what analyze_multiple_timeframes makes of the calls of analyze_timeframe
CollectAnalyses(data_dict, calls) ==
    [data_dict |-> [tf \in DOMAIN data_dict |-> calls[tf].df],
     results |-> [tf \in KeptTimeframes([t \in DOMAIN data_dict |-> calls[t].analysis])
                      |-> calls[tf].analysis]]

\* MultiTimeframeAnalyzer.analyze_multiple_timeframes: the result dict and
\* the caller's data_dict after the call
analyze_multiple_timeframes(data_dict) ==
    CollectAnalyses(data_dict,
                    [tf \in DOMAIN data_dict |-> analyze_timeframe(data_dict[tf], tf)]
                        @@ <<>>)

-----------------------------------------------------------------------------
(* Analysis: the frames enumerated and the state machine                   *)

\* n candles alike, each closing at 1000 within one point either side, so
\* that the exponential averages and the standard deviation of the closes
\* are exact
FlatFrame(n) ==
    [columns |-> OhlcColumns,
     rows |-> [i \in 1..n |->
                   [Open |-> QInt(1000), High |-> QInt(1001), Low |-> QInt(999),
                    Close |-> QInt(1000), Volume |-> QInt(1000)]]]

\* no frame, an empty one, one candle short of the minimum, and the minimum
AnalysisFrames ==
    {PyNone, FlatFrame(0), FlatFrame(MinCandles - 1), FlatFrame(MinCandles)}

AnalysisTimeframes == {"1d", "1h"}

\* what fetch_multiple_timeframes may hand over for the two timeframes
DataDicts == UNION {[tfs -> AnalysisFrames] : tfs \in SUBSET AnalysisTimeframes}

\* a caller hands over either the frames of the timeframes or, to the two
\* analyses of the candles themselves, a short frame and the lookbacks
AnalysisRequests ==
    {[data_dict |-> d] : d \in DataDicts}
        \cup {r \in MomentumRequests : Len(r.df) <= 2}

InitAnalysis ==
    /\ trades = <<>>
    /\ current_drawdown = QZero
    /\ request \in AnalysisRequests
    /\ op = Idle
    /\ result = NoResult

\* the request holds candles and lookbacks
CandlesRequested == "df" \in DOMAIN request

\* analyze_timeframe on the frame of one timeframe, which it works on in place
AnalyzeTimeframe ==
    /\ ~CandlesRequested
    /\ \E tf \in DOMAIN request.data_dict :
           \E call \in {analyze_timeframe(request.data_dict[tf], tf)} :
               /\ op' = [name |-> "analyze_timeframe", timeframe |-> tf]
               /\ result' = Returned(call.analysis)
               /\ request' = [request EXCEPT !.data_dict[tf] = call.df]
    /\ UNCHANGED <<trades, current_drawdown>>

AnalyzeMultipleTimeframes ==
    /\ ~CandlesRequested
    /\ \E call \in {analyze_multiple_timeframes(request.data_dict)} :
           /\ op' = [name |-> "analyze_multiple_timeframes"]
           /\ result' = Returned(call.results)
           /\ request' = [request EXCEPT !.data_dict = call.data_dict]
    /\ UNCHANGED <<trades, current_drawdown>>

NextAnalysis ==
    \/ CandlesRequested /\ CalculateTrendMomentum
    \/ CandlesRequested /\ DetectReversal
    \/ AnalyzeTimeframe
    \/ AnalyzeMultipleTimeframes

SpecAnalysis == InitAnalysis /\ [][NextAnalysis]_vars

\* the frame is missing or shorter than the minimum of analyze_timeframe
TooShort(df) == df = PyNone \/ Len(df.rows) < MinCandles

\* C11: a component given fewer candles than its minimum window raises
\* nothing and returns its insufficient-data result: calculate_trend_momentum
\* the neutral momentum below lookback candles, detect_reversal no reversal
\* below historical_lookback + recent_lookback candles, analyze_timeframe no
\* analysis without a frame or below 50 candles, and
\* analyze_multiple_timeframes a result without that timeframe.
C11_InsufficientData ==
    /\ (/\ op.name = "calculate_trend_momentum"
        /\ Len(request.df) < request.historical_lookback)
           => result = Returned(NeutralMomentum)
    /\ (/\ op.name = "detect_reversal"
        /\ Len(request.df) < request.historical_lookback + request.recent_lookback)
           => result = Returned(NoReversalDetected)
    /\ (/\ op.name = "analyze_timeframe"
        /\ TooShort(request.data_dict[op.timeframe]))
           => result = Returned(PyNone)
    /\ op.name = "analyze_multiple_timeframes"
           => /\ result.outcome = "returned"
              /\ \A tf \in DOMAIN request.data_dict :
                     TooShort(request.data_dict[tf]) => tf \notin DOMAIN result.value

\* analyze_multiple_timeframes was handed one frame of 49 candles and one of
\* 50, and its result holds the second timeframe only
C11_Witness ==
    /\ op.name = "analyze_multiple_timeframes"
    /\ \E short, long \in DOMAIN request.data_dict :
           /\ request.data_dict[short] # PyNone
           /\ request.data_dict[long] # PyNone
           /\ Len(request.data_dict[short].rows) = MinCandles - 1
           /\ Len(request.data_dict[long].rows) = MinCandles
           /\ DOMAIN result.value = {long}
           /\ result.value[long].timeframe = long

\* C20: analyze_timeframe and analyze_multiple_timeframes leave the caller's
\* candle frames as they were, the same columns and the same values, so that
\* a trade plan made from the frames afterwards reads the same data.
C20_FramesUnchanged ==
    [][~CandlesRequested => request'.data_dict = request.data_dict]_vars

-----------------------------------------------------------------------------
(* Weights that do not sum to 1.                                           *)

\* a confidence within [0, 1]
WithinUnit(x) == QGe(x, QZero) /\ QLe(x, QInt(1))

\* C21: with timeframe weights that do not sum to 1 and every signal
\* confidence within [0, 1], get_timeframe_consensus does not raise and
\* reports a confidence within [0, 1].
C21_ConfidenceWithinUnit ==
    ConsensusDone =>
        /\ result.outcome = "returned"
        /\ WithinUnit(result.value.confidence)

-----------------------------------------------------------------------------
(* The blend of calculate_weighted_signal.                                 *)

\* +1 for BUY, -1 for SELL, 0 for HOLD and for any other string
RequestSignalTerm ==
    CASE request.current_signal = "BUY" -> QInt(1)
      [] request.current_signal = "SELL" -> QInt(-1)
      [] OTHER -> QZero

\* +momentum_score if BULLISH, -momentum_score if BEARISH, 0 if NEUTRAL
RequestMomentumTerm ==
    CASE request.momentum.direction = "BULLISH" -> request.momentum.momentum_score
      [] request.momentum.direction = "BEARISH" -> QNeg(request.momentum.momentum_score)
      [] OTHER -> QZero

\* -reversal_strength for BULLISH_TO_BEARISH, +reversal_strength for
\* BEARISH_TO_BULLISH, 0 when is_reversal is false
RequestReversalTerm ==
    CASE ~request.reversal.is_reversal -> QZero
      [] request.reversal.is_reversal
             /\ request.reversal.reversal_type = "BULLISH_TO_BEARISH" ->
          QNeg(request.reversal.reversal_strength)
      [] request.reversal.is_reversal
             /\ request.reversal.reversal_type = "BEARISH_TO_BULLISH" ->
          request.reversal.reversal_strength

\* w_current * s + w_momentum * m + w_reversal * r of the request
RequestScore ==
    QAdd(QAdd(QMul(request.weights.current, RequestSignalTerm),
              QMul(request.weights.momentum, RequestMomentumTerm)),
         QMul(request.weights.reversal, RequestReversalTerm))

\* C22: calculate_weighted_signal returns BUY exactly when the blended score
\* w_current * s + w_momentum * m + w_reversal * r is above 0.3, SELL exactly
\* when it is below -0.3 and HOLD otherwise, with confidence min(|score|, 1).
C22_BlendedScore ==
    WeightedDone =>
        /\ result.outcome = "returned"
        /\ result.value[1] = "BUY" <=> QGt(RequestScore, Q(3, 10))
        /\ result.value[1] = "SELL" <=> QLt(RequestScore, Q(-3, 10))
        /\ result.value[1] = "HOLD" <=>
               (QLe(RequestScore, Q(3, 10)) /\ QGe(RequestScore, Q(-3, 10)))
        /\ result.value[2] = QMin(QAbs(RequestScore), QInt(1))

\* a score of exactly -0.3, from a bearish to bullish reversal of strength 1
\* against a SELL with neutral momentum under the weights 0.5/0.3/0.2: HOLD
\* with confidence 0.3
C22_Witness ==
    /\ WeightedDone
    /\ request.current_signal = "SELL"
    /\ request.reversal.is_reversal
    /\ request.reversal.reversal_type = "BEARISH_TO_BULLISH"
    /\ RequestScore = Q(-3, 10)
    /\ result.value[1] = "HOLD"
    /\ result.value[2] = Q(3, 10)

\* the signal opposite to a BUY or a SELL
Opposite(signal) ==
    CASE signal = "BUY" -> "SELL" [] signal = "SELL" -> "BUY" [] OTHER -> "NONE"

\* C30: with the default weights 0.4/0.4/0.2 and momentum_score and
\* reversal_strength within [0, 1], the signal calculate_weighted_signal
\* returns is never the opposite of current_signal, and it is HOLD exactly
\* when the returned confidence is at most 0.3.
C30_NeverOpposite ==
    (/\ WeightedDone
     /\ request.weights = DefaultSignalWeights
     /\ WithinUnit(request.momentum.momentum_score)
     /\ WithinUnit(request.reversal.reversal_strength)) =>
        /\ result.value[1] # Opposite(request.current_signal)
        /\ result.value[1] = "HOLD" <=> QLe(result.value[2], Q(3, 10))

\* a BUY against a bearish momentum of score 1 and a bullish to bearish
\* reversal of strength 1: the score is -0.2 and the result HOLD, not SELL
C30_Witness ==
    /\ WeightedDone
    /\ request.weights = DefaultSignalWeights
    /\ request.current_signal = "BUY"
    /\ request.momentum = Momentum("BEARISH", QInt(1))
    /\ request.reversal.is_reversal
    /\ request.reversal.reversal_type = "BULLISH_TO_BEARISH"
    /\ request.reversal.reversal_strength = QInt(1)
    /\ result.value[1] = "HOLD"
    /\ result.value[2] = Q(2, 10)

-----------------------------------------------------------------------------
(* The reversal test of detect_reversal on its two segments.               *)

\* the frame of the request holds the two segments
EnoughCandles ==
    Len(request.df) >= request.historical_lookback + request.recent_lookback

\* the historical_lookback candles immediately before the last
\* recent_lookback candles
PrecedingCandles ==
    SubSeq(request.df,
           Len(request.df) - request.recent_lookback - request.historical_lookback + 1,
           Len(request.df) - request.recent_lookback)

\* the last recent_lookback candles
LastCandles ==
    SubSeq(request.df, Len(request.df) - request.recent_lookback + 1, Len(request.df))

\* a strong trend in `historical` followed by the opposite direction
OppositeAfterStrong(historical, recent) ==
    /\ QGt(historical.momentum_score, Q(6, 10))
    /\ \/ historical.direction = "BULLISH" /\ recent.direction = "BEARISH"
       \/ historical.direction = "BEARISH" /\ recent.direction = "BULLISH"

\* the result of detect_reversal is the reversal test on the momentum of the
\* two segments
ReversalAsDescribed(historical, recent) ==
    /\ result.outcome = "returned"
    /\ historical.outcome = "returned"
    /\ recent.outcome = "returned"
    /\ result.value.is_reversal <=> OppositeAfterStrong(historical.value, recent.value)
    /\ OppositeAfterStrong(historical.value, recent.value) =>
           /\ result.value.reversal_type =
                  (IF historical.value.direction = "BULLISH"
                   THEN "BULLISH_TO_BEARISH" ELSE "BEARISH_TO_BULLISH")
           /\ result.value.reversal_strength = recent.value.consistency
           /\ result.value.warning_level =
                  (IF QGt(recent.value.consistency, Q(7, 10)) THEN "HIGH"
                   ELSE IF QGt(recent.value.consistency, Q(5, 10)) THEN "MEDIUM"
                   ELSE "LOW")
    /\ ~OppositeAfterStrong(historical.value, recent.value) =>
           /\ result.value.reversal_type = "NONE"
           /\ result.value.reversal_strength = QZero
           /\ result.value.warning_level = "LOW"

\* C23: given enough candles, detect_reversal returns the reversal
\* test on the historical_lookback candles before the last recent_lookback
\* candles and on those last candles, whatever the two lookbacks.
C23_ReversalOnSegments ==
    (op.name = "detect_reversal" /\ EnoughCandles) =>
        ReversalAsDescribed(
            calculate_trend_momentum(PrecedingCandles, request.historical_lookback),
            calculate_trend_momentum(LastCandles, request.recent_lookback))

\* the same for lookbacks of at least two candles each, where no segment is
\* empty or a single candle
ReversalOnSegmentsFromTwo ==
    (/\ op.name = "detect_reversal"
     /\ EnoughCandles
     /\ request.recent_lookback >= 2
     /\ request.historical_lookback >= 2) =>
        ReversalAsDescribed(
            calculate_trend_momentum(PrecedingCandles, request.historical_lookback),
            calculate_trend_momentum(LastCandles, request.recent_lookback))

-----------------------------------------------------------------------------
(* The result of get_timeframe_consensus.                                  *)

\* weight(timeframe) * signal_confidence if the timeframe is in the request
\* with the enhanced signal `side`, else 0
SideTerm(tf, side) ==
    IF tf \in DOMAIN request.analyses /\ request.analyses[tf].enhanced_signal = side
    THEN QMul(IF tf \in DOMAIN request.timeframe_weights
              THEN request.timeframe_weights[tf] ELSE Q(1, 10),
              request.analyses[tf].signal_confidence)
    ELSE QZero

\* the weighted total of a side over the four timeframes
SideTotal(side) ==
    QAdd(QAdd(SideTerm("1d", side), SideTerm("4h", side)),
         QAdd(SideTerm("1h", side), SideTerm("15m", side)))

\* the entries of the result that count timeframes
CountEntries == {"buy_timeframes", "sell_timeframes", "hold_timeframes"}

\* C24: get_timeframe_consensus counts every timeframe by its enhanced
\* signal and adds weight * signal_confidence to the total of its side; the
\* confidence is the winning total for BUY and SELL and 0.5 for HOLD; the
\* three counts sum to total_timeframes and agreement_count is the count of
\* the consensus side.
C24_ConsensusResult ==
    ConsensusDone =>
        /\ result.outcome = "returned"
        /\ result.value.consensus = "BUY" => result.value.confidence = SideTotal("BUY")
        /\ result.value.consensus = "SELL" => result.value.confidence = SideTotal("SELL")
        /\ result.value.consensus = "HOLD" => result.value.confidence = Q(1, 2)
        /\ CountEntries \subseteq DOMAIN result.value
        /\ result.value.buy_timeframes = SideCount("BUY")
        /\ result.value.sell_timeframes = SideCount("SELL")
        /\ result.value.buy_timeframes + result.value.sell_timeframes
               + result.value.hold_timeframes = result.value.total_timeframes
        /\ result.value.agreement_count = SideCount(result.value.consensus)

\* the same for a map of at least one timeframe
ConsensusResultOfNonEmpty ==
    (ConsensusDone /\ DOMAIN request.analyses # {}) =>
        /\ result.value.consensus = "BUY" => result.value.confidence = SideTotal("BUY")
        /\ result.value.consensus = "SELL" => result.value.confidence = SideTotal("SELL")
        /\ result.value.consensus = "HOLD" => result.value.confidence = Q(1, 2)
        /\ result.value.buy_timeframes = SideCount("BUY")
        /\ result.value.sell_timeframes = SideCount("SELL")
        /\ result.value.buy_timeframes + result.value.sell_timeframes
               + result.value.hold_timeframes = result.value.total_timeframes
        /\ result.value.agreement_count = SideCount(result.value.consensus)

\* the timeframes of the request whose reversal detection flags a reversal
ReversingTimeframes ==
    {tf \in DOMAIN request.analyses : request.analyses[tf].reversal_detection.is_reversal}

\* C25: for every map of analyses, the empty one included, the result of
\* get_timeframe_consensus has a list of reversal warnings that names exactly
\* the timeframes whose reversal detection has is_reversal true, whatever
\* the consensus, and has_reversal_warning is true exactly when the list is
\* not empty.
C25_ReversalWarnings ==
    ConsensusDone =>
        /\ result.outcome = "returned"
        /\ {"reversals_detected", "has_reversal_warning"} \subseteq DOMAIN result.value
        /\ {result.value.reversals_detected[i].timeframe :
                i \in 1..Len(result.value.reversals_detected)} = ReversingTimeframes
        /\ Len(result.value.reversals_detected) = Cardinality(ReversingTimeframes)
        /\ result.value.has_reversal_warning <=> result.value.reversals_detected # <<>>

\* the same for a map of at least one timeframe
ReversalWarningsOfNonEmpty ==
    (ConsensusDone /\ DOMAIN request.analyses # {}) =>
        /\ {result.value.reversals_detected[i].timeframe :
                i \in 1..Len(result.value.reversals_detected)} = ReversingTimeframes
        /\ Len(result.value.reversals_detected) = Cardinality(ReversingTimeframes)
        /\ result.value.has_reversal_warning <=> result.value.reversals_detected # <<>>

-----------------------------------------------------------------------------
(* The planner's fallbacks for an indicator that is not available.         *)

\* the column is missing from the row or its latest value is undefined
Unavailable(row, col) == col \notin DOMAIN row \/ IsNaN(row[col])

\* the ATR the plan of a timeframe is to be built on
PlanningAtr(row, entry_price) ==
    IF Unavailable(row, "ATR") THEN QMul(entry_price, Q(2, 100)) ELSE row["ATR"]

\* the 'best' entry of the plan of a timeframe
BestEntry(row, entry_price, signal) ==
    IF signal = "BUY"
    THEN IF Unavailable(row, "BB_Lower")
         THEN QSub(entry_price, QMul(Q(15, 10), PlanningAtr(row, entry_price)))
         ELSE row["BB_Lower"]
    ELSE IF Unavailable(row, "BB_Upper")
         THEN QAdd(entry_price, QMul(Q(15, 10), PlanningAtr(row, entry_price)))
         ELSE row["BB_Upper"]

\* every price of the three ladders of a plan is a number
DefinedLevels(plan) ==
    \A p \in PricesOf(plan.stop_losses) \cup PricesOf(plan.take_profits)
                \cup PricesOf(plan.entry_points) : ~IsNaN(p)

\* the plan of timeframe tf stands on the fallbacks where an indicator of
\* the row is not available
PlanOnFallbacks(tf) ==
    LET plan == result.value.timeframe_plans[tf]
        row == request.dataframes[tf].row
        atr == PlanningAtr(row, request.entry_price)
        away == IF request.signal = "BUY" THEN -1 ELSE 1
    IN /\ DefinedLevels(plan)
       /\ plan.stop_losses.standard_2atr.price
              = Round(QAdd(request.entry_price, QMul(QInt(2 * away), atr)), PriceDigits)
       /\ plan.take_profits.tp1_quick.price
              = Round(QSub(request.entry_price, QMul(QInt(away), atr)), PriceDigits)
       /\ plan.entry_points.entry_3_best.price
              = Round(BestEntry(row, request.entry_price, request.signal), PriceDigits)

\* C26: when the ATR or the Bollinger band of a timeframe is not available
\* (column missing or latest value undefined), the plan of that timeframe in
\* the result of create_multi_timeframe_trade_plans has defined numeric price
\* levels, built on an ATR of 2% of the entry price and on a 'best' entry of
\* entry - 1.5 x ATR for BUY, entry + 1.5 x ATR for SELL.
C26_FallbackWhenUnavailable ==
    ApprovedMulti =>
        \A tf \in DOMAIN result.value.timeframe_plans : PlanOnFallbacks(tf)

\* the same where no latest value is undefined: a column is there with a
\* number or is missing
FallbackWhenColumnMissing ==
    ApprovedMulti =>
        \A tf \in DOMAIN result.value.timeframe_plans :
            (\A col \in DOMAIN request.dataframes[tf].row :
                 ~IsNaN(request.dataframes[tf].row[col])) => PlanOnFallbacks(tf)

-----------------------------------------------------------------------------
(* The result of calculate_trend_momentum on a window of candles.          *)

\* calculate_trend_momentum was called with a lookback of at least two
\* candles on a frame that holds that many
MomentumOnWindow ==
    /\ op.name = "calculate_trend_momentum"
    /\ request.historical_lookback >= 2
    /\ Len(request.df) >= request.historical_lookback

\* the i-th candle of the window: the last historical_lookback candles
WindowCandle(i) == request.df[Len(request.df) - request.historical_lookback + i]

WindowBullish ==
    Cardinality({i \in 1..request.historical_lookback :
                    QGt(WindowCandle(i).Close, WindowCandle(i).Open)})

WindowBearish ==
    Cardinality({i \in 1..request.historical_lookback :
                    QLt(WindowCandle(i).Close, WindowCandle(i).Open)})

WindowHigherHighs ==
    Cardinality({i \in 2..request.historical_lookback :
                    QGt(WindowCandle(i).High, WindowCandle(i - 1).High)})

WindowLowerLows ==
    Cardinality({i \in 2..request.historical_lookback :
                    QLt(WindowCandle(i).Low, WindowCandle(i - 1).Low)})

\* the direction by the counts: 2 x a > 3 x b is a > 1.5 x b
WindowDirection ==
    IF 2 * WindowBullish > 3 * WindowBearish THEN "BULLISH"
    ELSE IF 2 * WindowBearish > 3 * WindowBullish THEN "BEARISH"
    ELSE "NEUTRAL"

\* 0.3 x consistency + 0.3 x |price_change_pct| / 10 + 0.2 x strength
\*     + 0.2 x pattern / (window - 1), on the values of the result
WindowScore ==
    QAdd(QAdd(QMul(Q(3, 10), result.value.consistency),
              QMul(Q(3, 10), QDiv(QAbs(result.value.price_change_pct), QInt(10)))),
         QAdd(QMul(Q(2, 10), result.value.strength),
              QMul(Q(2, 10),
                   Q(IF WindowDirection = "BULLISH" THEN WindowHigherHighs ELSE WindowLowerLows,
                     request.historical_lookback - 1))))

\* C27: for a lookback of at least 2 and a window of that many candles, the
\* result of calculate_trend_momentum has strength, consistency and
\* momentum_score within [0, 1]; the direction is BULLISH exactly when the
\* bullish count exceeds 1.5 x the bearish count, BEARISH exactly when the
\* bearish count exceeds 1.5 x the bullish count, NEUTRAL otherwise; and
\* momentum_score is min(1, 0.3 x consistency + 0.3 x |price_change_pct| / 10
\* + 0.2 x strength + 0.2 x pattern / (window - 1)), the pattern being the
\* higher-high count for BULLISH and the lower-low count otherwise.
C27_MomentumResult ==
    MomentumOnWindow =>
        /\ result.outcome = "returned"
        /\ WithinUnit(result.value.strength)
        /\ WithinUnit(result.value.consistency)
        /\ WithinUnit(result.value.momentum_score)
        /\ result.value.direction = WindowDirection
        /\ result.value.price_change_pct
               = QMul(QDiv(QSub(WindowCandle(request.historical_lookback).Close,
                                WindowCandle(1).Close),
                           WindowCandle(1).Close), QInt(100))
        /\ result.value.momentum_score = QMin(QInt(1), WindowScore)

\* a steady rise of twenty candles scores above 1 and is reported at 1
C27_Witness ==
    /\ MomentumOnWindow
    /\ request.historical_lookback = 20
    /\ result.outcome = "returned"
    /\ result.value.direction = "BULLISH"
    /\ QGt(WindowScore, QInt(1))
    /\ result.value.momentum_score = QInt(1)

\* three candles, two of them falling: BEARISH with a score below 1
MomentumBearishOfThree ==
    /\ MomentumOnWindow
    /\ request.historical_lookback = 3
    /\ WindowBearish = 2
    /\ result.outcome = "returned"
    /\ result.value.direction = "BEARISH"
    /\ QLt(result.value.momentum_score, QInt(1))

-----------------------------------------------------------------------------
(* vote under the weights analyze_pair passes.                             *)

\* the weights of the call in analyze_pair
AnalyzePairWeights == [ml |-> Q(1, 2), technical |-> Q(1, 2)]

\* the majority of the indicator signals of the request: the side with
\* strictly more entries, HOLD on a tie
TechnicalMajority ==
    LET buys == Cardinality({k \in DOMAIN request.technical_signals :
                                request.technical_signals[k] = "BUY"})
        sells == Cardinality({k \in DOMAIN request.technical_signals :
                                 request.technical_signals[k] = "SELL"})
    IN IF buys > sells THEN "BUY" ELSE IF sells > buys THEN "SELL" ELSE "HOLD"

\* vote was called with the weights of analyze_pair
VotedAsAnalyzePair == VoteDone /\ request.weights = AnalyzePairWeights

\* C29: under the weights technical 0.5 and ml 0.5 and confidences within
\* [0, 1], vote returns BUY only if the technical majority and the classifier
\* signal are both BUY, SELL only if both are SELL; a BUY or SELL result has
\* a confidence above 0.5 and at most 1.0; and when the two sources disagree
\* or either is HOLD the result is HOLD.
C29_ActionableOnlyWhenBothAgree ==
    (VotedAsAnalyzePair /\ WithinUnit(request.ml_prediction.confidence)) =>
        /\ result.outcome = "returned"
        /\ result.value.signal = "BUY"
               => (TechnicalMajority = "BUY" /\ request.ml_prediction.signal = "BUY")
        /\ result.value.signal = "SELL"
               => (TechnicalMajority = "SELL" /\ request.ml_prediction.signal = "SELL")
        /\ result.value.signal \in {"BUY", "SELL"}
               => (QGt(result.value.confidence, Q(1, 2)) /\ QLe(result.value.confidence, QInt(1)))
        /\ (\/ TechnicalMajority # request.ml_prediction.signal
            \/ TechnicalMajority = "HOLD"
            \/ request.ml_prediction.signal = "HOLD")
               => result.value.signal = "HOLD"

\* four of six indicators and the classifier at 0.4 say BUY: the result is
\* BUY with confidence 0.5 x 4/6 + 0.5 x 0.4
C29_Witness ==
    /\ VotedAsAnalyzePair
    /\ TechnicalMajority = "BUY"
    /\ Cardinality({k \in DOMAIN request.technical_signals :
                        request.technical_signals[k] = "BUY"}) = 4
    /\ request.ml_prediction = [signal |-> "BUY", confidence |-> Q(4, 10)]
    /\ result.outcome = "returned"
    /\ result.value.signal = "BUY"
    /\ result.value.confidence = Q(8, 15)

-----------------------------------------------------------------------------
(* ForexAnalyzer.analyze_pair                                              *)

\* what the planner reads of a fetched frame: whether it is empty, and its
\* last row
PlannerFrame(df) ==
    IF Len(df.rows) = 0 THEN EmptyFrame
    ELSE [empty |-> FALSE, row |-> df.rows[Len(df.rows)]]

\* the dictionary analyze_pair compiles (symbol and timestamp are left out)
PairResult(current_price, consensus, ml_prediction, final_decision, trade_plan, multi_tf_trade_plans, mtf_analysis) ==
    IF trade_plan # PyNone /\ trade_plan.outcome = "raised" THEN trade_plan
    ELSE IF multi_tf_trade_plans # PyNone /\ multi_tf_trade_plans.outcome = "raised"
    THEN multi_tf_trade_plans
    ELSE Returned([current_price |-> current_price,
                   multi_timeframe_consensus |-> consensus,
                   ml_prediction |-> ml_prediction,
                   final_decision |-> final_decision,
                   trade_plan |-> IF trade_plan = PyNone THEN PyNone ELSE trade_plan.value,
                   multi_tf_trade_plans |-> IF multi_tf_trade_plans = PyNone THEN PyNone
                                            ELSE multi_tf_trade_plans.value,
                   timeframe_analyses |-> mtf_analysis])

\* the two plans of analyze_pair, made only for a final signal other than HOLD
PairPlans(data, current_price, consensus, ml_prediction, final_decision, mtf_analysis, account_balance, drawdown) ==
    IF final_decision.signal = "HOLD"
    THEN PairResult(current_price, consensus, ml_prediction, final_decision, PyNone, PyNone,
                    mtf_analysis)
    ELSE PairResult(current_price, consensus, ml_prediction, final_decision,
                    create_trade_plan(final_decision.signal, current_price,
                                      final_decision.confidence, account_balance,
                                      PlannerFrame(data["1d"]).row, drawdown),
                    create_multi_timeframe_trade_plans(
                        final_decision.signal, current_price, final_decision.confidence,
                        account_balance, [tf \in DOMAIN data |-> PlannerFrame(data[tf])],
                        AllTimeframes, drawdown),
                    mtf_analysis)

\* current_price = data['1d']['Close'].iloc[-1] and what follows it
PairPricing(data, consensus, ml_prediction, final_decision, mtf_analysis, account_balance, drawdown) ==
    IF "1d" \notin DOMAIN data THEN Raised("KeyError: 1d")
    ELSE IF Len(data["1d"].rows) = 0 THEN Raised("IndexError")
    ELSE PairPlans(data, ILoc(data["1d"], "Close", 1), consensus, ml_prediction,
                   final_decision, mtf_analysis, account_balance, drawdown)

\* analyze_pair from the consensus to the vote; predicted is the answer of
\* the classifier, asked only when the daily frame was fetched
PairDecision(data, mtf_analysis, predicted, min_timeframes_agree, account_balance, drawdown) ==
    IF DOMAIN mtf_analysis = {} THEN Returned([error |-> "Analysis failed"])
    ELSE PairPricing(data,
                     get_timeframe_consensus(mtf_analysis, DefaultTimeframeWeights,
                                             min_timeframes_agree),
                     IF "1d" \in DOMAIN data THEN predicted
                     ELSE [signal |-> "HOLD", confidence |-> QZero],
                     vote(IF "1d" \in DOMAIN mtf_analysis THEN mtf_analysis["1d"].signals
                          ELSE <<>>,
                          IF "1d" \in DOMAIN data THEN predicted
                          ELSE [signal |-> "HOLD", confidence |-> QZero],
                          [ml |-> Q(1, 2), technical |-> Q(1, 2)]),
                     mtf_analysis, account_balance, drawdown)

\* analyze_pair after the fetch: analyzed is what analyze_multiple_timeframes
\* returned and made of the fetched frames
PairAnalysis(analyzed, predicted, min_timeframes_agree, account_balance, drawdown) ==
    PairDecision(analyzed.data_dict, analyzed.results, predicted, min_timeframes_agree,
                 account_balance, drawdown)

\* ForexAnalyzer.analyze_pair; data is what fetch_multiple_timeframes returned
analyze_pair(data, predicted, min_timeframes_agree, account_balance, drawdown) ==
    IF DOMAIN data = {} THEN Returned([error |-> "Failed to fetch data"])
    ELSE PairAnalysis(analyze_multiple_timeframes(data), predicted, min_timeframes_agree,
                      account_balance, drawdown)

\* a fetched frame: empty, one candle short of the minimum, or the minimum
FetchedFrames == {FlatFrame(0), FlatFrame(MinCandles - 1), FlatFrame(MinCandles)}

\* fetch_multiple_timeframes leaves out a timeframe whose fetch gave None
FetchedDicts == UNION {[tfs -> FetchedFrames] : tfs \in SUBSET AnalysisTimeframes}

PairRequests ==
    [data : FetchedDicts, predicted : MLPredictions, min_timeframes_agree : MinAgreeValues,
     account_balance : Balances]

InitPair ==
    /\ trades = <<>>
    /\ current_drawdown = QZero
    /\ request \in PairRequests
    /\ op = Idle
    /\ result = NoResult

AnalyzePair ==
    /\ op' = [name |-> "analyze_pair"]
    /\ result' = analyze_pair(request.data, request.predicted, request.min_timeframes_agree,
                              request.account_balance, current_drawdown)
    /\ UNCHANGED <<trades, current_drawdown, request>>

NextPair == AnalyzePair

SpecPair == InitPair /\ [][NextPair]_vars

PairDone == op.name = "analyze_pair"

\* the timeframes of the request whose frame has the candles for an analysis
Analyzable == {tf \in DOMAIN request.data : Len(request.data[tf].rows) >= MinCandles}

\* C28: analyze_pair does not fail because one timeframe is unusable: when a
\* timeframe, the daily one included, has no data or too few candles and
\* another timeframe can be analyzed, it returns a result whose analyses are
\* those of the analyzable timeframes, and it makes trade plans only when the
\* final signal is not HOLD.
C28_UnusableTimeframeOmitted ==
    (PairDone /\ Analyzable # {}) =>
        /\ result.outcome = "returned"
        /\ "error" \notin DOMAIN result.value
        /\ DOMAIN result.value.timeframe_analyses = Analyzable
        /\ result.value.final_decision.signal = "HOLD"
               => (result.value.trade_plan = PyNone /\ result.value.multi_tf_trade_plans = PyNone)

\* the same where the daily frame was fetched with at least one candle
UnusableOmittedWithDailyCandles ==
    (/\ PairDone
     /\ Analyzable # {}
     /\ "1d" \in DOMAIN request.data
     /\ Len(request.data["1d"].rows) > 0) =>
        /\ result.outcome = "returned"
        /\ "error" \notin DOMAIN result.value
        /\ DOMAIN result.value.timeframe_analyses = Analyzable
        /\ result.value.final_decision.signal = "HOLD"
               <=> (result.value.trade_plan = PyNone /\ result.value.multi_tf_trade_plans = PyNone)

\* a final BUY on a daily frame of the minimum length: both plans are made
PairPlansMade ==
    /\ PairDone
    /\ result.outcome = "returned"
    /\ "error" \notin DOMAIN result.value
    /\ result.value.final_decision.signal = "BUY"
    /\ result.value.trade_plan # PyNone
    /\ result.value.multi_tf_trade_plans # PyNone

====
